---- MODULE Spec2Model ----
(***************************************************************************)
(* exstruct: structure inference (JSON / XSD), the type unifier, the route *)
(* filler and the structure-driven extractor.                              *)
(*                                                                         *)
(* Strings are sequences of one-character strings, so that join, split,    *)
(* endswith and removesuffix are computed as Python computes them.         *)
(* A structure tree (a nested dict whose nodes all carry "@collected_info")*)
(* is a function from field paths (sequences of field names) to the node's *)
(* @collected_info record; the empty dict is the empty function <<>>.      *)
(***************************************************************************)
EXTENDS Integers, Sequences, FiniteSets, TLC

VARIABLES
    \* ---- JSONExStruct.make_structure (the fold over a list of documents)
    ignored_fields,     \* BaseExStruct._ignored_fields
    data_structure,     \* make_structure's accumulated structure
    n_folded,           \* loop iterations of make_structure done so far
    before,             \* data_structure before the last iteration
    incoming,           \* element_structure of the last iteration
    swapped,            \* the same two trees unified in the opposite order
    first,              \* element_structure of the first iteration
    content_kind,       \* "list" or "dict": what json.loads(source_content) gave
    \* ---- XSDExStruct.make_structure / parse_element (the recursive descent)
    xsd_schema,         \* the parsed schema: the child elements of each complex type
    xsd_stack,          \* the active parse_element calls, outermost first
    xsd_tree,           \* the nodes created so far, by path
    xsd_status          \* "idle", "running", "done" or "RecursionError"

xsd_vars == <<xsd_schema, xsd_stack, xsd_tree, xsd_status>>

VARIABLES
    \* ---- BaseExStruct.extract_structure / fill_routes
    mapping_delimiter,  \* BaseExStruct._mapping_delimiter
    file_path,          \* extract_structure: whether a result path is configured
    rt_structure,       \* extract_structure's data_structure
    rt_tasks,           \* the futures of fill_routes, by flat key: their state
    rt_pc,              \* where extract_structure is
    rt_saved            \* what save_structure_to_file wrote, NoneVal if nothing

route_vars == <<mapping_delimiter, file_path, rt_structure, rt_tasks, rt_pc, rt_saved>>

VARIABLES
    \* ---- DataExtractor.extract
    ex_mapping,         \* DataExtractor._mapping, the plan
    ex_content,         \* the document handed to extract
    ex_result,          \* what extract returned or raised, NoneVal before the call
    ex_pc,              \* "call" before extract, "done" after it
    ex_log              \* the records the module's logger has emitted

extract_vars == <<ex_mapping, ex_content, ex_result, ex_pc, ex_log>>

VARIABLES
    \* ---- extract_structure of one ExStruct instance, any variant
    st_variant,         \* the class: "csv", "xml" or "json"
    st_source,          \* what read_source returned, decoded
    st_ignored,         \* the ignored_fields argument of extract_structure
    st_schema,          \* XMLExStruct: the schema the document's namespace leads to
    st_ignore_levels    \* the ignore_levels argument of extract_structure

struct_vars == <<st_variant, st_source, st_ignored, st_schema, st_ignore_levels>>

VARIABLES
    \* ---- the ExStruct instance extract_structure is called on
    self_ignored_fields,    \* BaseExStruct._ignored_fields
    self_source_content     \* BaseExStruct._source_content

self_vars == <<self_ignored_fields, self_source_content>>

VARIABLES
    \* ---- parse_element of a field whose value is an array of objects
    ar_variant,         \* the class: "xml" or "json"
    ar_content,         \* the array: its elements, each a decoded object
    ar_structure,       \* what parse_element returned, <<>> before the call
    ar_pc               \* "call" before parse_element, "done" after it

array_vars == <<ar_variant, ar_content, ar_structure, ar_pc>>

VARIABLES
    \* ---- XSDExStruct.make_structure with ignore_levels
    sp_schema,          \* the schema: the paths of its element declarations
    sp_ignore_levels,   \* the ignore_levels argument
    sp_result,          \* what make_structure returned or raised
    sp_pc               \* "call" before make_structure, "done" after it

splice_vars == <<sp_schema, sp_ignore_levels, sp_result, sp_pc>>

VARIABLES
    \* ---- DataExtractor.extract_from_file, dataset after dataset
    bt_file,            \* file: the datasets of the input file, in key order
    bt_key,             \* the position in file.keys() of the dataset at hand
    bt_mapping,         \* DataExtractor._mapping, shared by the tasks
    bt_mapping0,        \* the mapping as it was when extract_from_file was called
    bt_batch_size,      \* DataExtractor._batch_size
    bt_dset,            \* the documents of the dataset, decoded
    bt_futures,         \* futures_to_extracted_data: submitted, or the outcome
    bt_yielded,         \* the futures as_completed has yielded
    bt_batch,           \* batch
    bt_out,             \* extracted_data_dset
    bt_processed,       \* processed_data
    bt_pc               \* where extract_from_file is

batch_vars ==
    <<bt_file, bt_key, bt_mapping, bt_mapping0, bt_batch_size, bt_dset, bt_futures,
      bt_yielded, bt_batch, bt_out, bt_processed, bt_pc>>

merge_vars ==
    <<ignored_fields, data_structure, n_folded, before, incoming, swapped, first,
      content_kind>>

-----------------------------------------------------------------------------
(* Bounds of the model *)

\* documents folded by one make_structure call
MaxFold == 3

\* child elements declared by one complex type
MaxChildren == 2

\* nested parse_element calls the interpreter allows before it raises
\* RecursionError (sys.getrecursionlimit(), scaled down); larger than the
\* number of complex types plus one, so that only a recursion that revisits
\* a type can reach it
MaxCallDepth == 6

-----------------------------------------------------------------------------
(* Python strings *)

NoneVal == "None"

Last(s) == s[Len(s)]
Front(s) == SubSeq(s, 1, Len(s) - 1)

IsPrefix(p, q) == Len(p) <= Len(q) /\ SubSeq(q, 1, Len(p)) = p

\* str.endswith
EndsWith(s, suffix) ==
    Len(suffix) <= Len(s) /\ SubSeq(s, Len(s) - Len(suffix) + 1, Len(s)) = suffix

\* str.removesuffix
RemoveSuffix(s, suffix) ==
    IF Len(suffix) > 0 /\ EndsWith(s, suffix) THEN SubSeq(s, 1, Len(s) - Len(suffix)) ELSE s

\* sep.join(parts)
RECURSIVE Join(_, _)
Join(parts, sep) ==
    IF Len(parts) = 0 THEN <<>>
    ELSE IF Len(parts) = 1 THEN parts[1]
    ELSE parts[1] \o sep \o Join(Tail(parts), sep)

\* the first index at or after i where sep occurs in s, 0 if none
RECURSIVE FindFrom(_, _, _)
FindFrom(s, sep, i) ==
    IF i + Len(sep) - 1 > Len(s) THEN 0
    ELSE IF SubSeq(s, i, i + Len(sep) - 1) = sep THEN i
    ELSE FindFrom(s, sep, i + 1)

\* s.split(sep), sep non-empty: the pieces between the non-overlapping
\* occurrences of sep taken from the left
RECURSIVE Split(_, _)
Split(s, sep) ==
    LET i == FindFrom(s, sep, 1) IN
    IF i = 0 THEN <<s>>
    ELSE <<SubSeq(s, 1, i - 1)>> \o Split(SubSeq(s, i + Len(sep), Len(s)), sep)

\* sub in s
Contains(s, sub) == FindFrom(s, sub, 1) # 0

\* str.lower on the letters the model uses
LowerChar(c) ==
    CASE c = "A" -> "a"
      [] c = "B" -> "b"
      [] c = "E" -> "e"
      [] c = "R" -> "r"
      [] c = "T" -> "t"
      [] c = "U" -> "u"
      [] OTHER -> c

Lower(s) == [i \in 1..Len(s) |-> LowerChar(s[i])]

-----------------------------------------------------------------------------
(* Field names and configuration *)

NameA == <<"a">>
NameB == <<"b">>
\* parse_json: structure_name defaults to "entry"
DefaultStructureName == <<"e", "n", "t", "r", "y">>

\* the caller-supplied type-mapping table, keyed by the host value's class name
data_type_mapping ==
    [int |-> "Integer", bool |-> "Boolean", float |-> "Float", str |-> "String"]

_data_type_priorities ==
    [Integer |-> 1, Boolean |-> 1, Float |-> 2, String |-> 3, object |-> 3]

external_id_collection == {<<"i", "d">>}

\* the ignored-field lists a caller may configure
IgnoredFieldsChoices == {<<>>, <<NameB>>}

\* BaseExStruct._is_ignored_field: some alias contains, case-insensitively,
\* some ignored-field substring
_is_ignored_field(aliases, ignored) ==
    \E i \in 1..Len(ignored) :
        \E j \in 1..Len(aliases) : Contains(Lower(aliases[j]), Lower(ignored[i]))

-----------------------------------------------------------------------------
(* Decoded JSON documents: a function from the paths of the document's     *)
(* values to the class name of the value ("dict" for an object).           *)

PyScalars == {"int", "bool", "float", "str"}
PyTypes == PyScalars \cup {"dict"}

DocPaths == {<<NameA>>, <<NameB>>, <<NameA, NameA>>}

HasChild(P, p) == \E q \in P : Len(q) = Len(p) + 1 /\ IsPrefix(p, q)

PrefixClosed(P) == \A p \in P : Len(p) > 1 => Front(p) \in P

\* the values a document may hold at a path: "a" is an integer, a boolean, a
\* string or an object (with or without the child "a"), "b" an integer, a
\* float or a string
DocValues(p) ==
    IF p = <<NameB>> THEN {"int", "float", "str"}
    ELSE IF HasChild(DocPaths, p) THEN {"int", "bool", "str", "dict"}
    ELSE {"int", "bool", "str"}

JsonDocs ==
    UNION { { d \in [P -> PyTypes] :
                \A p \in P : /\ d[p] \in DocValues(p)
                             /\ HasChild(P, p) => d[p] = "dict" } :
            P \in { Q \in SUBSET DocPaths : Q # {} /\ PrefixClosed(Q) } }

-----------------------------------------------------------------------------
(* JSONExStruct.parse_element / parse_json *)

\* the collected_info_settings parse_element builds for one element
parse_element_info(element_name, element_class, ignored) ==
    [ annotation |-> <<>>,
      aliases |-> <<element_name>>,
      collected_info_type |->
          IF _is_ignored_field(<<element_name>>, ignored) THEN NoneVal ELSE "V",
      type |-> IF element_class = "dict" THEN "object" ELSE data_type_mapping[element_class],
      occurence |-> FALSE,
      external_id |-> Lower(element_name) \in external_id_collection,
      path |-> <<>>,
      mapping |-> <<>> ]

\* parse_element over a whole element: one node per value of the element,
\* children nested under their parent's key
parse_element(element, ignored) ==
    [p \in DOMAIN element |-> parse_element_info(Last(p), element[p], ignored)]

\* parse_json: a dict of more than one key is wrapped as {structure_name: dict}
parse_json(json_entry, structure_name, ignored) ==
    LET top == {p \in DOMAIN json_entry : Len(p) = 1}
        wrapped == [p \in {<<structure_name>>} \cup
                          {<<structure_name>> \o q : q \in DOMAIN json_entry} |->
                       IF Len(p) = 1 THEN "dict" ELSE json_entry[Tail(p)]]
    IN  parse_element(IF Cardinality(top) > 1 THEN wrapped ELSE json_entry, ignored)

-----------------------------------------------------------------------------
(* DeepDiff(t1, t2) on two structure trees.  Two nodes at the same path    *)
(* have the same name, hence the same annotation, aliases,                 *)
(* collected_info_type, occurence and external_id; before route filling    *)
(* path and mapping are both empty: only "type" can differ.                *)

dictionary_item_added(t1, t2) ==
    {p \in DOMAIN t2 : p \notin DOMAIN t1 /\ (Len(p) = 1 \/ Front(p) \in DOMAIN t1)}

dictionary_item_removed(t1, t2) == dictionary_item_added(t2, t1)

values_changed(t1, t2) ==
    {p \in DOMAIN t1 \cap DOMAIN t2 : t1[p].type # t2[p].type}

DeepDiff(t1, t2) ==
    [ dictionary_item_added |-> dictionary_item_added(t1, t2),
      dictionary_item_removed |-> dictionary_item_removed(t1, t2),
      values_changed |-> values_changed(t1, t2) ]

\* truth value of a DeepDiff result: some report is non-empty
DiffNonEmpty(diff) ==
    diff.dictionary_item_added # {} \/ diff.dictionary_item_removed # {}
        \/ diff.values_changed # {}

-----------------------------------------------------------------------------
(* JSONExStruct.update_structure *)

\* updated_value with the comparison turned round: the narrower type wins
updated_value_narrowing(old_value, new_value) ==
    IF _data_type_priorities[new_value] < _data_type_priorities[old_value]
    THEN new_value ELSE old_value

\* updated_value without the comparison: the incoming type always wins
updated_value_last_writer(old_value, new_value) == new_value

\* updated_value with >= for >: on equal priorities the incoming type wins
updated_value_ties_to_new(old_value, new_value) ==
    IF _data_type_priorities[new_value] >= _data_type_priorities[old_value]
    THEN new_value ELSE old_value

\* the type written back for one "values_changed" entry
updated_value(old_value, new_value) ==
    IF _data_type_priorities[new_value] > _data_type_priorities[old_value]
    THEN new_value ELSE old_value

\* the paths assigned by the "dictionary_item_added" branch: each added item
\* is assigned entry_structure's whole subtree
added_subtrees(entry_structure, diff) ==
    {q \in DOMAIN entry_structure : \E p \in diff.dictionary_item_added : IsPrefix(p, q)}

update_structure(structure, entry_structure, fields_to_update) ==
    LET new_paths == added_subtrees(entry_structure, fields_to_update)
    IN  [p \in DOMAIN structure \cup new_paths |->
            IF p \in new_paths THEN entry_structure[p]
            ELSE IF p \in fields_to_update.values_changed
                 THEN [structure[p] EXCEPT
                          !.type = updated_value(structure[p].type, entry_structure[p].type)]
                 ELSE structure[p]]

\* dict.update(structure, entry_structure): every top-level key of
\* entry_structure replaces the key's whole value in structure
dict_update(structure, entry_structure) ==
    LET kept == {p \in DOMAIN structure :
                    ~ \E q \in DOMAIN entry_structure : Len(q) = 1 /\ IsPrefix(q, p)}
    IN  [p \in kept \cup DOMAIN entry_structure |->
            IF p \in DOMAIN entry_structure THEN entry_structure[p] ELSE structure[p]]

\* make_structure's loop body without the unifier: every element is
\* dict.update'd into the accumulated structure
make_structure_step_overwrite(structure, element_structure) ==
    dict_update(structure, element_structure)

\* one iteration of make_structure's loop over content_json
make_structure_step(structure, element_structure) ==
    LET element_structure_diff == DeepDiff(structure, element_structure)
    IN  IF DiffNonEmpty(element_structure_diff) /\ structure # <<>>
        THEN update_structure(structure, element_structure, element_structure_diff)
        ELSE dict_update(structure, element_structure)

-----------------------------------------------------------------------------
(* JSONExStruct.make_structure as a state machine *)

\* parse_json of every document, per ignored-field configuration
parsed_json ==
    [ign \in IgnoredFieldsChoices |->
        [d \in JsonDocs |-> parse_json(d, DefaultStructureName, ign)]]

MergeInit ==
    /\ ignored_fields = <<NameB>>
    /\ data_structure = <<>>
    /\ n_folded = 0
    /\ before = <<>>
    /\ incoming = <<>>
    /\ swapped = <<>>
    /\ first = <<>>
    /\ content_kind \in {"list", "dict"}

\* content_json is a list: fold its next element into data_structure
FoldElement ==
    /\ content_kind = "list"
    /\ n_folded < MaxFold
    /\ \E json_element \in JsonDocs :
        LET element_structure == parsed_json[ignored_fields][json_element]
        IN  /\ data_structure' = make_structure_step(data_structure, element_structure)
            /\ before' = data_structure
            /\ incoming' = element_structure
            /\ swapped' = IF data_structure = <<>> THEN element_structure
                          ELSE make_structure_step(element_structure, data_structure)
            /\ first' = IF n_folded = 0 THEN element_structure ELSE first
    /\ n_folded' = n_folded + 1
    /\ UNCHANGED <<ignored_fields, content_kind>>

\* content_json is a single object: data_structure = parse_json(content_json)
ParseSingle ==
    /\ content_kind = "dict"
    /\ n_folded = 0
    /\ \E content_json \in JsonDocs :
        LET element_structure == parsed_json[ignored_fields][content_json]
        IN  /\ data_structure' = element_structure
            /\ incoming' = element_structure
            /\ swapped' = element_structure
            /\ first' = element_structure
    /\ n_folded' = 1
    /\ UNCHANGED <<ignored_fields, content_kind, before>>

MergeNext == FoldElement \/ ParseSingle

\* no make_structure call of the JSON extractor in progress
MergeIdle ==
    /\ ignored_fields = <<>>
    /\ data_structure = <<>>
    /\ n_folded = 0
    /\ before = <<>>
    /\ incoming = <<>>
    /\ swapped = <<>>
    /\ first = <<>>
    /\ content_kind = "list"

-----------------------------------------------------------------------------
(* XSD schemas.  A schema gives, for each complex type, the elements its   *)
(* content model declares, in document order.  An element declaration has  *)
(* a type (a complex type, or the simple type "S") and is declared either  *)
(* directly in the type's content group or in a group nested inside it.    *)
(* xmlschema links every element to the group that holds it                *)
(* (element.parent) and every group to the component that holds it         *)
(* (group.parent): the complex type for its content group, the enclosing   *)
(* group for a nested group.                                               *)

ComplexTypes == {"X", "Y"}
SimpleType == "S"
XsdTypes == ComplexTypes \cup {SimpleType}

ElementDecls == [type : XsdTypes, nested : BOOLEAN]

\* element.local_name: one name per declaration
local_name(decl) ==
    LET base == CASE decl.type = "X" -> <<"x">>
                  [] decl.type = "Y" -> <<"y">>
                  [] OTHER -> <<"s">>
    IN  IF decl.nested THEN <<"n">> \o base ELSE base

RootName == <<"r">>

SeqsUpTo(S, n) == UNION {[1..k -> S] : k \in 0..n}

\* the declarations of one content model: distinct, at most MaxChildren
ChildSeqs ==
    {q \in SeqsUpTo(ElementDecls, MaxChildren) :
        \A i, j \in 1..Len(q) : i # j => q[i] # q[j]}

XsdSchemas == [ComplexTypes -> ChildSeqs]

\* element.parent.parent for an element declared in complex type `owner`:
\* the type itself, or the enclosing group (no type) for a nested group
parent_parent(owner, decl) == IF decl.nested THEN "group" ELSE owner

\* the cycle guard of parse_element:
\* element.parent and (element.type == element.parent.parent);
\* `owner` is "none" for a global element, whose parent is None
cycle_guard(owner, decl) ==
    owner # "none" /\ decl.type = parent_parent(owner, decl)

\* element.iterchildren(): the elements of the element type's content model,
\* nested groups flattened; nothing for a simple type
iterchildren(schema, decl) ==
    IF decl.type \in ComplexTypes THEN schema[decl.type] ELSE <<>>

\* collected_info_settings["type"]: "object" for a complex type, the mapped
\* base type for a simple one
xsd_element_type(decl) == IF decl.type \in ComplexTypes THEN "object" ELSE "String"

\* the frame of one parse_element(element) call: the children still to
\* visit are none when the guard returns early
parse_element_frame(schema, owner, decl, path) ==
    [ decl |-> decl,
      path |-> path,
      todo |-> IF cycle_guard(owner, decl) THEN <<>> ELSE iterchildren(schema, decl) ]

-----------------------------------------------------------------------------
(* XSDExStruct.make_structure as a state machine, one parse_element call   *)
(* or return per step                                                      *)

XsdIdle ==
    /\ xsd_schema = <<>>
    /\ xsd_stack = <<>>
    /\ xsd_tree = <<>>
    /\ xsd_status = "idle"

XsdInit ==
    /\ xsd_schema \in XsdSchemas
    /\ xsd_stack = <<>>
    /\ xsd_tree = <<>>
    /\ xsd_status = "idle"

\* the global element of the schema: type X, no parent
RootDecl == [type |-> "X", nested |-> FALSE]

\* make_structure: parse_element(root_element) for the schema's root element
XsdParseRoot ==
    /\ xsd_status = "idle"
    /\ xsd_stack' = <<parse_element_frame(xsd_schema, "none", RootDecl, <<RootName>>)>>
    /\ xsd_tree' = (<<RootName>> :> [type |-> xsd_element_type(RootDecl)])
    /\ xsd_status' = "running"
    /\ UNCHANGED xsd_schema

\* the loop over element.iterchildren(): parse_element(child) is called
XsdParseChild ==
    /\ xsd_status = "running"
    /\ xsd_stack # <<>>
    /\ Last(xsd_stack).todo # <<>>
    /\ Len(xsd_stack) < MaxCallDepth
    /\ LET frame == Last(xsd_stack)
           child == Head(frame.todo)
           path == frame.path \o <<local_name(child)>>
       IN  /\ xsd_stack' =
                 Append([xsd_stack EXCEPT ![Len(xsd_stack)].todo = Tail(frame.todo)],
                        parse_element_frame(xsd_schema, frame.decl.type, child, path))
           /\ xsd_tree' = [p \in DOMAIN xsd_tree \cup {path} |->
                              IF p = path THEN [type |-> xsd_element_type(child)]
                              ELSE xsd_tree[p]]
    /\ UNCHANGED <<xsd_schema, xsd_status>>

\* parse_element(child) is called at the interpreter's recursion limit
XsdRecursionError ==
    /\ xsd_status = "running"
    /\ xsd_stack # <<>>
    /\ Last(xsd_stack).todo # <<>>
    /\ Len(xsd_stack) >= MaxCallDepth
    /\ xsd_status' = "RecursionError"
    /\ UNCHANGED <<xsd_schema, xsd_stack, xsd_tree>>

\* a parse_element call has visited all its children and returns its result
XsdReturn ==
    /\ xsd_status = "running"
    /\ xsd_stack # <<>>
    /\ Last(xsd_stack).todo = <<>>
    /\ xsd_stack' = Front(xsd_stack)
    /\ xsd_status' = IF Len(xsd_stack) = 1 THEN "done" ELSE "running"
    /\ UNCHANGED <<xsd_schema, xsd_tree>>

XsdNext == XsdParseRoot \/ XsdParseChild \/ XsdRecursionError \/ XsdReturn

-----------------------------------------------------------------------------
(* to_var_name (util/_util.py) *)

\* string.punctuation, 32 characters (the grave accent is written by name)
Punctuation ==
    << "!", "\"", "#", "$", "%", "&", "'", "(", ")", "*", "+", ",", "-", ".", "/", ":",
       ";", "<", "=", ">", "?", "@", "[", "\\", "]", "^", "_", "grave-accent", "{", "|", "}", "~" >>

\* the first argument of str.maketrans: string.punctuation followed by the
\* four characters the source file holds after it: a space, a-circumflex,
\* a low double quotation mark and an en dash
TranslateFrom == Punctuation \o <<" ", "a-circumflex", "low-9-quote", "en-dash">>

\* the second argument of str.maketrans: the 34 underscores of the source
TranslateTo == [i \in 1..34 |-> "_"]

\* str.maketrans(x, y): the two arguments must have equal length
maketrans(x, y) ==
    IF Len(x) # Len(y) THEN [ok |-> FALSE, exc |-> "ValueError"]
    ELSE [ok |-> TRUE, from |-> x, to |-> y]

\* str.translate with a table made by maketrans
translate_char(c, table) ==
    IF \E i \in 1..Len(table.from) : table.from[i] = c
    THEN table.to[CHOOSE i \in 1..Len(table.from) :
                    table.from[i] = c /\ \A j \in (i + 1)..Len(table.from) : table.from[j] # c]
    ELSE c

translate(s, table) == [i \in 1..Len(s) |-> translate_char(s[i], table)]

\* transliterate.translit(s, "ru", reversed=True): Cyrillic letters become
\* Latin letters, every other character is kept
translit_char(c) ==
    CASE c = "cyr-ya" -> <<"j", "a">>
      [] c = "cyr-a" -> <<"a">>
      [] OTHER -> <<c>>

RECURSIVE translit(_)
translit(s) == IF s = <<>> THEN <<>> ELSE translit_char(Head(s)) \o translit(Tail(s))

Digits == {"0", "1", "2", "3", "4", "5", "6", "7", "8", "9"}

\* keyword.iskeyword or keyword.issoftkeyword, on the words of at most four
\* letters
IsKeyword(s) ==
    s \in { <<"a", "s">>, <<"i", "f">>, <<"i", "n">>, <<"i", "s">>, <<"o", "r">>,
            <<"a", "n", "d">>, <<"d", "e", "f">>, <<"d", "e", "l">>, <<"f", "o", "r">>,
            <<"n", "o", "t">>, <<"t", "r", "y">>, <<"e", "l", "i", "f">>,
            <<"e", "l", "s", "e">>, <<"f", "r", "o", "m">>, <<"p", "a", "s", "s">>,
            <<"w", "i", "t", "h">>, <<"c", "a", "s", "e">>, <<"t", "y", "p", "e">>,
            <<"_">> }

\* to_var_name(modified_string): the value returned, or the exception raised
to_var_name(modified_string) ==
    LET table == maketrans(TranslateFrom, TranslateTo)
        result == IF modified_string # <<>>
                  THEN translate(translit(modified_string), table)
                  ELSE translit(modified_string)
    IN  IF modified_string # <<>> /\ ~table.ok
        THEN [ok |-> FALSE, exc |-> table.exc]
        ELSE IF IsKeyword(result) THEN [ok |-> TRUE, value |-> <<"_">> \o result]
        ELSE IF modified_string = <<>> THEN [ok |-> FALSE, exc |-> "IndexError"]
        ELSE IF modified_string[1] \in Digits THEN [ok |-> TRUE, value |-> <<"_">> \o result]
        ELSE [ok |-> TRUE, value |-> result]

-----------------------------------------------------------------------------
(* BaseExStruct.fill_routes / fill_route / _fill_field *)

\* " -> ", the default mapping delimiter and the literal of fill_routes
Arrow == <<" ", "-", ">", " ">>
Dot == <<".">>

\* the delimiters a caller may configure
DelimiterChoices == {Arrow, Dot}

CollectedInfoKey ==
    <<"@", "c", "o", "l", "l", "e", "c", "t", "e", "d", "_", "i", "n", "f", "o">>
PathKey == <<"p", "a", "t", "h">>
MappingKey == <<"m", "a", "p", "p", "i", "n", "g">>

\* the keys of a @collected_info record
CollectedInfoKeys ==
    { <<"a", "n", "n", "o", "t", "a", "t", "i", "o", "n">>,
      <<"a", "l", "i", "a", "s", "e", "s">>,
      <<"c", "o", "l", "l", "e", "c", "t", "e", "d", "_", "i", "n", "f", "o", "_", "t", "y", "p", "e">>,
      <<"t", "y", "p", "e">>,
      <<"o", "c", "c", "u", "r", "e", "n", "c", "e">>,
      <<"e", "x", "t", "e", "r", "n", "a", "l", "_", "i", "d">>,
      PathKey,
      MappingKey }

\* a dict that holds children but no "@collected_info" key
BareDict == [kind |-> "dict"]

\* node["@collected_info"] exists
HasCollectedInfo(node) == "collected_info_type" \in DOMAIN node

\* flatdict.FlatDict(data_structure, delimiter).keys(): one key per value of
\* every @collected_info, the nested keys joined by the delimiter
FlatDictKeys(structure, delimiter) ==
    { Join(p \o <<CollectedInfoKey, k>>, delimiter) :
        p \in {q \in DOMAIN structure : HasCollectedInfo(structure[q])},
        k \in CollectedInfoKeys }

\* fill_routes: the flat keys that end with the literal "@collected_info -> path"
route_paths(structure, delimiter) ==
    { key \in FlatDictKeys(structure, delimiter) :
        EndsWith(key, CollectedInfoKey \o Arrow \o PathKey) }

\* _fill_field: exec of
\*   data_structure['k1']...['kn']['<filed_name>'] = '<field_content>'
\* for the keys k1..kn; KeyError unless they lead to a @collected_info
fill_field_ok(structure, keys) ==
    /\ Len(keys) >= 2
    /\ Last(keys) = CollectedInfoKey
    /\ Front(keys) \in DOMAIN structure
    /\ HasCollectedInfo(structure[Front(keys)])

\* _fill_field writing the field into the @collected_info of every node
_fill_field_everywhere(structure, keys, filed_name, field_content) ==
    [p \in DOMAIN structure |->
        IF ~HasCollectedInfo(structure[p]) THEN structure[p]
        ELSE IF filed_name = "path" THEN [structure[p] EXCEPT !.path = field_content]
        ELSE [structure[p] EXCEPT !.mapping = field_content]]

_fill_field(structure, keys, filed_name, field_content) ==
    IF filed_name = "path"
    THEN [structure EXCEPT ![Front(keys)].path = field_content]
    ELSE [structure EXCEPT ![Front(keys)].mapping = field_content]

\* fill_route: path.split(self.mapping_delimiter)[:-1]
path_components(path, delimiter) == Front(Split(path, delimiter))

\* fill_route: path.removesuffix(" -> @collected_info -> path")
route_field_content(path) ==
    RemoveSuffix(path, Arrow \o CollectedInfoKey \o Arrow \o PathKey)

\* fill_route: the mapping, its last segment normalised, joined with " -> "
route_mapping(path, delimiter, normalized) ==
    LET parts == Split(route_field_content(path), delimiter)
    IN  Join(Front(parts) \o <<normalized>>, Arrow)

\* ThreadPoolExecutor(max_workers=100)
max_workers == 100

-----------------------------------------------------------------------------
(* BaseExStruct.extract_structure as a state machine; every fill_route     *)
(* task is two steps, one per _fill_field call                             *)

\* the structures make_structure hands to fill_routes
RouteStructures == {parse_json(d, DefaultStructureName, <<>>) : d \in JsonDocs}

RouteIdle ==
    /\ mapping_delimiter = Arrow
    /\ file_path = FALSE
    /\ rt_structure = <<>>
    /\ rt_tasks = <<>>
    /\ rt_pc = "idle"
    /\ rt_saved = NoneVal

RouteInit ==
    /\ mapping_delimiter \in DelimiterChoices
    /\ file_path \in BOOLEAN
    /\ rt_structure = <<>>
    /\ rt_tasks = <<>>
    /\ rt_pc = "start"
    /\ rt_saved = NoneVal

\* extract_structure: data_structure = self.make_structure(...)
MakeStructure ==
    /\ rt_pc = "start"
    /\ rt_structure' \in RouteStructures
    /\ rt_pc' = "made"
    /\ UNCHANGED <<mapping_delimiter, file_path, rt_tasks, rt_saved>>

\* fill_routes: the paths are computed and one fill_route task per path is
\* submitted to the pool
FillRoutesSubmit ==
    /\ rt_pc = "made"
    /\ rt_tasks' = [path \in route_paths(rt_structure, mapping_delimiter) |-> "submitted"]
    /\ rt_pc' = "pool"
    /\ UNCHANGED <<mapping_delimiter, file_path, rt_structure, rt_saved>>

Running == {path \in DOMAIN rt_tasks : rt_tasks[path] = "running"}

\* a worker takes a task: fill_route up to its first _fill_field (the path)
FillRoutePath ==
    /\ rt_pc = "pool"
    /\ Cardinality(Running) < max_workers
    /\ \E path \in DOMAIN rt_tasks :
        /\ rt_tasks[path] = "submitted"
        /\ LET keys == path_components(path, mapping_delimiter)
           IN  IF fill_field_ok(rt_structure, keys)
               THEN /\ rt_structure' =
                         _fill_field(rt_structure, keys, "path", route_field_content(path))
                    /\ rt_tasks' = [rt_tasks EXCEPT ![path] = "running"]
               ELSE /\ rt_tasks' = [rt_tasks EXCEPT ![path] = "KeyError"]
                    /\ UNCHANGED rt_structure
    /\ UNCHANGED <<mapping_delimiter, file_path, rt_pc, rt_saved>>

\* the rest of fill_route: to_var_name, then the second _fill_field (the
\* mapping); an exception ends the task and is kept in its future
FillRouteMapping ==
    /\ rt_pc = "pool"
    /\ \E path \in DOMAIN rt_tasks :
        /\ rt_tasks[path] = "running"
        /\ LET keys == path_components(path, mapping_delimiter)
               name == Last(Split(route_field_content(path), mapping_delimiter))
               normalized == to_var_name(name)
           IN  IF normalized.ok
               THEN /\ rt_structure' =
                         _fill_field(rt_structure, keys, "mapping",
                                     route_mapping(path, mapping_delimiter, normalized.value))
                    /\ rt_tasks' = [rt_tasks EXCEPT ![path] = "done"]
               ELSE /\ rt_tasks' = [rt_tasks EXCEPT ![path] = normalized.exc]
                    /\ UNCHANGED rt_structure
    /\ UNCHANGED <<mapping_delimiter, file_path, rt_pc, rt_saved>>

Finished(state) == state \notin {"submitted", "running"}

\* the with block ends (ThreadPoolExecutor.__exit__ waits for every task),
\* then future.result() of each future: the first exception is raised
FillRoutesJoin ==
    /\ rt_pc = "pool"
    /\ \A path \in DOMAIN rt_tasks : Finished(rt_tasks[path])
    /\ rt_pc' = IF \A path \in DOMAIN rt_tasks : rt_tasks[path] = "done"
                THEN "filled" ELSE "raised"
    /\ UNCHANGED <<mapping_delimiter, file_path, rt_structure, rt_tasks, rt_saved>>

\* extract_structure: file_path is set, the structure is saved and returned
SaveStructure ==
    /\ rt_pc = "filled"
    /\ file_path
    /\ rt_saved' = rt_structure
    /\ rt_pc' = "returned"
    /\ UNCHANGED <<mapping_delimiter, file_path, rt_structure, rt_tasks>>

\* extract_structure: no file_path, the structure is returned
ReturnStructure ==
    /\ rt_pc = "filled"
    /\ ~file_path
    /\ rt_pc' = "returned"
    /\ UNCHANGED <<mapping_delimiter, file_path, rt_structure, rt_tasks, rt_saved>>

-----------------------------------------------------------------------------
(* CSVExStruct (exstruct/_csv_exstruct.py)                                 *)

\* the caller-supplied type-mapping table of a tabular source, keyed by the
\* name of the column's dtype
table_data_type_mapping ==
    [Int64 |-> "Integer", boolean |-> "Boolean", string |-> "String"]

\* CSVExStruct.parse_element({column_name: column_type})
csv_parse_element(element_name, element_data) ==
    [ annotation |-> <<>>,
      aliases |-> <<element_name>>,
      collected_info_type |-> "V",
      type |-> table_data_type_mapping[element_data],
      occurence |-> FALSE,
      external_id |-> Lower(element_name) \in external_id_collection,
      path |-> <<>>,
      mapping |-> <<>> ]

\* CSVExStruct.make_structure: {structure_name: columns}, one entry of
\* columns per column of source_content.dtypes
csv_make_structure(dtypes, structure_name) ==
    [p \in {<<structure_name>>} \cup {<<structure_name>> \o c : c \in DOMAIN dtypes} |->
        IF Len(p) = 1 THEN BareDict ELSE csv_parse_element(p[2], dtypes[Tail(p)])]

-----------------------------------------------------------------------------
(* XMLExStruct (exstruct/_xml_exstruct.py): the structure built from the   *)
(* decoded document alone, for a document without repeated elements        *)

\* the collected_info_settings XMLExStruct.parse_element builds for one
\* element
xml_parse_element_info(key, export_class) ==
    [ annotation |-> <<>>,
      aliases |-> <<key>>,
      collected_info_type |-> "V",
      type |-> IF export_class = "dict" THEN "object" ELSE data_type_mapping[export_class],
      occurence |-> FALSE,
      external_id |-> Lower(key) \in external_id_collection,
      path |-> <<>>,
      mapping |-> <<>> ]

\* XMLExStruct.parse_element over a whole element, children nested under
\* their parent's key
xml_parse_element(element) ==
    [p \in DOMAIN element |-> xml_parse_element_info(Last(p), element[p])]

\* XMLExStruct.parse_json: structure_name defaults to "entry"; a dict of
\* more than one key is wrapped as {structure_name: dict}
xml_parse_json(json_entry, structure_name) ==
    LET name == IF structure_name = NoneVal THEN DefaultStructureName ELSE structure_name
        top == {p \in DOMAIN json_entry : Len(p) = 1}
        wrapped == [p \in {<<name>>} \cup {<<name>> \o q : q \in DOMAIN json_entry} |->
                       IF Len(p) = 1 THEN "dict" ELSE json_entry[Tail(p)]]
    IN  xml_parse_element(IF Cardinality(top) > 1 THEN wrapped ELSE json_entry)

\* the outcome of the schema discovery of make_structure: no schema could be
\* exported from the document's namespace
NoSchema == [found |-> FALSE]

\* the type-mapping entries for the base types of a schema's simple types
schema_data_type_mapping == [string |-> "String", integer |-> "Integer"]

\* the schema that declares a document's elements, by path: an anonymous
\* complex type for an element with children, xs:string for one without,
\* every element in a sequence with minOccurs = 1 and no annotation
schema_of(document) ==
    [p \in DOMAIN document |->
        [ type |-> IF document[p] = "dict" THEN "complex" ELSE "string",
          min_occurs |-> 1,
          parent_model |-> "sequence" ]]

\* the collected_info_settings XMLExStruct.xsd_parse_element builds for one
\* element declaration
xsd_parse_element_info(element_name, decl, ignored) ==
    [ annotation |-> <<"'", "N", "o", "n", "e", "'">>,
      aliases |-> <<element_name>>,
      collected_info_type |->
          IF _is_ignored_field(<<element_name>>, ignored) THEN NoneVal ELSE "V",
      type |-> IF decl.type = "complex" THEN "object"
               ELSE schema_data_type_mapping[decl.type],
      occurence |-> (decl.min_occurs # 0) \/ ~(decl.parent_model = "choice"),
      external_id |-> Lower(element_name) \in external_id_collection,
      path |-> <<>>,
      mapping |-> <<>> ]

\* XMLExStruct.__from_xsd(source_content, ignored_fields), called with the
\* positional arguments args: TypeError when one is missing, else one
\* xsd_parse_element per declared element
from_xsd(args) ==
    IF Len(args) < 2
    THEN [ok |-> FALSE, exc |-> "TypeError"]
    ELSE [ok |-> TRUE,
          value |-> [p \in DOMAIN args[1] |->
                        xsd_parse_element_info(Last(p), args[1][p], args[2])]]

\* from_xsd as make_structure would call it with both arguments
from_xsd_both(source_content, ignored) == from_xsd(<<source_content, ignored>>)

\* make_structure's call: self.__from_xsd(xsd_schema_content)
from_xsd_call(source_content, ignored) == from_xsd(<<source_content>>)

\* XMLExStruct.make_structure: the try block (schema discovery, then
\* __from_xsd); on any exception the structure is built from the decoded
\* document by __from_json
xml_make_structure(source_content, schema, ignored, structure_name) ==
    LET from_schema == IF schema.found THEN from_xsd_call(schema.elements, ignored)
                       ELSE [ok |-> FALSE, exc |-> "XMLSchemaException"]
    IN  IF from_schema.ok THEN from_schema.value
        ELSE xml_parse_json(source_content, structure_name)

-----------------------------------------------------------------------------
(* extract_structure of a CSVExStruct, an XMLExStruct or a JSONExStruct:   *)
(* make_structure of the class, then the route filling above               *)

ColumnNames == {NameA, NameB, <<"B", "a">>}
DtypeNames == {"Int64", "boolean", "string"}

\* source_content.dtypes.to_dict() of a table: the dtype name of each column
Tables ==
    UNION { [{<<c>> : c \in cols} -> DtypeNames] : cols \in SUBSET ColumnNames \ {{}} }

\* the sturcture_name argument of extract_structure
TableName == <<"t">>

Variants == {"csv", "xml", "json"}

Sources(variant) == IF variant = "csv" THEN Tables ELSE JsonDocs

\* BaseExStruct.__init__: self._source_content = None
NotRead == [read |-> FALSE]

\* BaseExStruct.read_source: self.source_content = file.read()
read_source(source) == [read |-> TRUE, content |-> source]

\* the ignore_levels a caller may pass
IgnoreLevelsChoices == {-1, 0, 1}

\* extract_structure with the test on ignore_levels left out
ignore_levels_rejected_never(ignore_levels) == FALSE

\* extract_structure: if ignore_levels < 0: raise ValueError
ignore_levels_rejected(ignore_levels) == ignore_levels < 0

\* extract_structure: self.ignored_fields = ignored_fields if it is truthy,
\* [] if not
ignored_fields_or_empty(ignored) == IF Len(ignored) > 0 THEN ignored ELSE <<>>

\* the schema a document leads to: none can be exported, or the schema that
\* declares the document's elements
SchemasOf(variant, source) ==
    IF variant = "xml" THEN {NoSchema, [found |-> TRUE, elements |-> schema_of(source)]}
    ELSE {NoSchema}

StructIdle ==
    /\ st_variant = "none"
    /\ st_source = <<>>
    /\ st_ignored = <<>>
    /\ st_schema = NoSchema
    /\ st_ignore_levels = 0
    /\ self_ignored_fields = <<>>
    /\ self_source_content = NotRead

StructInit ==
    /\ st_variant \in Variants
    /\ st_source \in Sources(st_variant)
    /\ st_ignored \in IgnoredFieldsChoices
    /\ st_schema \in SchemasOf(st_variant, st_source)
    /\ st_ignore_levels \in IgnoreLevelsChoices
    /\ self_ignored_fields = <<>>
    /\ self_source_content = NotRead

\* extract_structure: a negative ignore_levels raises ValueError, first thing
RejectIgnoreLevels ==
    /\ rt_pc = "start"
    /\ ignore_levels_rejected(st_ignore_levels)
    /\ rt_pc' = "ValueError"
    /\ UNCHANGED <<mapping_delimiter, file_path, rt_structure, rt_tasks, rt_saved>>
    /\ UNCHANGED self_vars

\* extract_structure of a CSVExStruct up to the return of make_structure;
\* CSVExStruct.read_source does not keep the table in self.source_content
CsvMakeStructure ==
    /\ rt_pc = "start"
    /\ st_variant = "csv"
    /\ ~ignore_levels_rejected(st_ignore_levels)
    /\ self_ignored_fields' = ignored_fields_or_empty(st_ignored)
    /\ UNCHANGED self_source_content
    /\ rt_structure' = csv_make_structure(st_source, TableName)
    /\ rt_pc' = "made"
    /\ UNCHANGED <<mapping_delimiter, file_path, rt_tasks, rt_saved>>

\* extract_structure of an XMLExStruct up to the return of make_structure
XmlMakeStructure ==
    /\ rt_pc = "start"
    /\ st_variant = "xml"
    /\ ~ignore_levels_rejected(st_ignore_levels)
    /\ self_ignored_fields' = ignored_fields_or_empty(st_ignored)
    /\ self_source_content' = read_source(st_source)
    /\ rt_structure' = xml_make_structure(st_source, st_schema, st_ignored, NoneVal)
    /\ rt_pc' = "made"
    /\ UNCHANGED <<mapping_delimiter, file_path, rt_tasks, rt_saved>>

\* extract_structure of a JSONExStruct up to the return of make_structure
JsonMakeStructure ==
    /\ rt_pc = "start"
    /\ st_variant = "json"
    /\ ~ignore_levels_rejected(st_ignore_levels)
    /\ self_ignored_fields' = ignored_fields_or_empty(st_ignored)
    /\ self_source_content' = read_source(st_source)
    /\ rt_structure' = parse_json(st_source, DefaultStructureName, st_ignored)
    /\ rt_pc' = "made"
    /\ UNCHANGED <<mapping_delimiter, file_path, rt_tasks, rt_saved>>

-----------------------------------------------------------------------------
(* parse_element of {name: [element, ...]}: a field whose value is an      *)
(* array of objects, in JSONExStruct and in XMLExStruct                    *)

\* array elements parsed by one parse_element call
MaxElements == 2

ArrayName == <<"l">>

\* a tree's paths moved under the field `name`
nested_under(name, tree) ==
    [p \in {<<name>> \o q : q \in DOMAIN tree} |-> tree[Tail(p)]]

\* JSONExStruct.parse_element, the loop over a list: _parse_child_element of
\* every element, each child's structure dict.update'd into result
RECURSIVE json_list_children(_, _, _)
json_list_children(elements, ignored, result) ==
    IF elements = <<>> THEN result
    ELSE json_list_children(Tail(elements), ignored,
                            dict_update(result, parse_element(Head(elements), ignored)))

\* JSONExStruct.parse_element({name: elements}) for a list
json_parse_list(name, elements, ignored) ==
    LET children == json_list_children(elements, ignored, <<>>)
    IN  [p \in {<<name>>} \cup DOMAIN nested_under(name, children) |->
            IF Len(p) = 1 THEN parse_element_info(name, "dict", ignored)
            ELSE children[Tail(p)]]

\* XMLExStruct.parse_element, the loop over a list: every element's
\* structure is unified into result by __json_update_structure when the two
\* differ and result is not empty, dict.update'd into it when not
RECURSIVE xml_list_children(_, _)
xml_list_children(elements, result) ==
    IF elements = <<>> THEN result
    ELSE xml_list_children(Tail(elements),
                           make_structure_step(result, xml_parse_element(Head(elements))))

\* XMLExStruct.parse_element(elements, key) for a list
xml_parse_list(key, elements) ==
    LET children == xml_list_children(elements, <<>>)
    IN  [p \in {<<key>>} \cup DOMAIN nested_under(key, children) |->
            IF Len(p) = 1 THEN xml_parse_element_info(key, "dict")
            ELSE children[Tail(p)]]

\* the arrays of one to MaxElements objects
Arrays == UNION {[1..n -> JsonDocs] : n \in 1..MaxElements}

ArrayIdle ==
    /\ ar_variant = "none"
    /\ ar_content = <<>>
    /\ ar_structure = <<>>
    /\ ar_pc = "idle"

ArrayInit ==
    /\ ar_variant \in {"xml", "json"}
    /\ ar_content \in Arrays
    /\ ar_structure = <<>>
    /\ ar_pc = "call"

\* JSONExStruct.parse_element({ArrayName: ar_content})
JsonParseList ==
    /\ ar_pc = "call"
    /\ ar_variant = "json"
    /\ ar_structure' = json_parse_list(ArrayName, ar_content, <<>>)
    /\ ar_pc' = "done"
    /\ UNCHANGED <<ar_variant, ar_content>>

\* XMLExStruct.parse_element(ar_content, ArrayName)
XmlParseList ==
    /\ ar_pc = "call"
    /\ ar_variant = "xml"
    /\ ar_structure' = xml_parse_list(ArrayName, ar_content)
    /\ ar_pc' = "done"
    /\ UNCHANGED <<ar_variant, ar_content>>

-----------------------------------------------------------------------------
(* XSDExStruct.make_structure / parse_element with ignore_levels, on a     *)
(* schema whose elements have anonymous types and no cycle.  The schema is *)
(* the set of the paths of its element declarations; the dict a            *)
(* parse_element call returns is a function from paths to                  *)
(* collected_info_settings in which the empty path stands for the dict's   *)
(* own "@collected_info" key.                                              *)

\* the deepest element declaration of a schema
MaxSchemaDepth == 3

\* the largest ignore_levels a caller passes
MaxIgnoreLevels == 3

ElementNames == <<NameA, NameB>>

\* the schemas: one global element "r", below it elements named a or b
SchemaPaths(depth) ==
    UNION {{<<RootName>> \o q : q \in [1..k -> {NameA, NameB}]} : k \in 0..(depth - 1)}

SpliceSchemas ==
    {S \in SUBSET SchemaPaths(MaxSchemaDepth) : <<RootName>> \in S /\ PrefixClosed(S)}

\* element.iterchildren(), in document order
schema_children(schema, element) ==
    SelectSeq([i \in 1..Len(ElementNames) |-> element \o <<ElementNames[i]>>],
              LAMBDA child : child \in schema)

\* the collected_info_settings parse_element builds for an element
splice_element_info(schema, element) ==
    xsd_parse_element_info(
        Last(element),
        [ type |-> IF HasChild(schema, element) THEN "complex" ELSE "string",
          min_occurs |-> 1,
          parent_model |-> "sequence" ],
        <<>>)

\* result.pop("@collected_info"): KeyError when the key is absent
pop_collected_info(result) ==
    IF <<>> \in DOMAIN result
    THEN [ok |-> TRUE, value |-> [p \in DOMAIN result \ {<<>>} |-> result[p]]]
    ELSE [ok |-> FALSE, exc |-> "KeyError"]

\* result.pop("@collected_info", None)
pop_collected_info_or_none(result) ==
    [p \in DOMAIN result \ {<<>>} |-> result[p]]

\* XSDExStruct.parse_element(element, ignore_levels), and its loop over the
\* children still to visit
RECURSIVE xsd_parse_element(_, _, _)
RECURSIVE xsd_parse_children(_, _, _, _)

xsd_parse_children(schema, children, ignore_levels, result) ==
    IF children = <<>> THEN [ok |-> TRUE, value |-> result]
    ELSE LET child == Head(children)
         IN  IF ignore_levels # 0
             THEN LET parsed == xsd_parse_element(schema, child, ignore_levels - 1)
                      popped == IF parsed.ok
                                THEN pop_collected_info(dict_update(result, parsed.value))
                                ELSE parsed
                  IN  IF popped.ok
                      THEN xsd_parse_children(schema, Tail(children), ignore_levels,
                                              popped.value)
                      ELSE popped
             ELSE LET parsed == xsd_parse_element(schema, child, 0)
                  IN  IF parsed.ok
                      THEN xsd_parse_children(
                               schema, Tail(children), ignore_levels,
                               dict_update(result, nested_under(Last(child), parsed.value)))
                      ELSE parsed

xsd_parse_element(schema, element, ignore_levels) ==
    IF ignore_levels < 0 THEN [ok |-> FALSE, exc |-> "ValueError"]
    ELSE xsd_parse_children(schema, schema_children(schema, element), ignore_levels,
                            (<<>> :> splice_element_info(schema, element)))

\* XSDExStruct.make_structure for the schema's one global element
xsd_make_structure(schema, ignore_levels) ==
    IF ignore_levels < 0 THEN [ok |-> FALSE, exc |-> "ValueError"]
    ELSE IF ignore_levels # 0
    THEN LET parsed == xsd_parse_element(schema, <<RootName>>, ignore_levels - 1)
         IN  IF parsed.ok
             THEN [ok |-> TRUE, value |-> pop_collected_info_or_none(parsed.value)]
             ELSE parsed
    ELSE LET parsed == xsd_parse_element(schema, <<RootName>>, 0)
         IN  IF parsed.ok
             THEN [ok |-> TRUE, value |-> nested_under(RootName, parsed.value)]
             ELSE parsed

SpliceIdle ==
    /\ sp_schema = {}
    /\ sp_ignore_levels = 0
    /\ sp_result = [ok |-> TRUE, value |-> <<>>]
    /\ sp_pc = "idle"

SpliceInit ==
    /\ sp_schema \in SpliceSchemas
    /\ sp_ignore_levels \in 0..MaxIgnoreLevels
    /\ sp_result = [ok |-> TRUE, value |-> <<>>]
    /\ sp_pc = "call"

\* XSDExStruct.make_structure(source_content, ignore_levels=sp_ignore_levels)
XsdMakeStructure ==
    /\ sp_pc = "call"
    /\ sp_result' = xsd_make_structure(sp_schema, sp_ignore_levels)
    /\ sp_pc' = "done"
    /\ UNCHANGED <<sp_schema, sp_ignore_levels>>

-----------------------------------------------------------------------------
(* DataExtractor (extractor/_extractor.py) *)

\* the values of a document after json.loads, and an exception with the plan
\* node whose processing raised it
PyNull == [k |-> "null"]
PyInt(n) == [k |-> "int", v |-> n]
PyStr(s) == [k |-> "str", v |-> s]
PyBool(b) == [k |-> "bool", v |-> b]
PyDict(f) == [k |-> "dict", v |-> f]
PyList(s) == [k |-> "list", v |-> s]
PyRaise(exc, at) == [k |-> "raise", exc |-> exc, at |-> at]

\* the truth value Python gives to a value
truthy(value) ==
    CASE value.k = "null" -> FALSE
      [] value.k = "int" -> value.v # 0
      [] value.k = "str" -> value.v # <<>>
      [] value.k = "bool" -> value.v
      [] value.k = "dict" -> DOMAIN value.v # {}
      [] value.k = "list" -> Len(value.v) > 0

\* dict.get(key, None)
dict_get(item, key) == IF key \in DOMAIN item.v THEN item.v[key] ELSE PyNull

\* the keys of a plan node in the order of its dict: a before b
KeyOrder == <<NameA, NameB>>

\* _extract_data: data_type_elements, the child keys of a plan node
data_type_elements(plan, p) ==
    SelectSeq(KeyOrder, LAMBDA key : p \o <<key>> \in DOMAIN plan)

_data_type_mapping_name(data_type_settings, delimiter) ==
    Last(Split(data_type_settings.mapping, delimiter))

DigitValue(c) ==
    CASE c = "0" -> 0 [] c = "1" -> 1 [] c = "2" -> 2 [] c = "3" -> 3 [] c = "4" -> 4
      [] c = "5" -> 5 [] c = "6" -> 6 [] c = "7" -> 7 [] c = "8" -> 8 [] c = "9" -> 9

RECURSIVE DigitsValue(_)
DigitsValue(s) ==
    IF s = <<>> THEN 0 ELSE DigitsValue(Front(s)) * 10 + DigitValue(Last(s))

\* int(data) on strings without sign, blanks or underscores
py_int(data, at) ==
    IF data # <<>> /\ \A i \in 1..Len(data) : data[i] \in Digits
    THEN PyInt(DigitsValue(data))
    ELSE PyRaise("ValueError", at)

\* data_type.lower() for the type names of the plans
lower_type(data_type) ==
    CASE data_type = "Boolean" -> "boolean"
      [] data_type = "Integer" -> "integer"
      [] data_type = "String" -> "string"
      [] OTHER -> data_type

\* _cast_data_value_to_type for the types String, LargeBinary, Integer and
\* Boolean; a type name without a branch gives None
_cast_data_value_to_type(data, data_type, at) ==
    CASE data_type = "String" \/ data_type = "LargeBinary" -> PyStr(data)
      [] data_type = "Integer" -> py_int(data, at)
      [] data_type = "Boolean" -> PyBool(lower_type(data_type) = "true")
      [] OTHER -> PyNull

CollectedInfoTypeKey ==
    <<"c", "o", "l", "l", "e", "c", "t", "e", "d", "_", "i", "n", "f", "o", "_", "t", "y", "p", "e">>

FirstOf(S) == CHOOSE i \in S : \A j \in S : i <= j
LastOf(S) == CHOOSE i \in S : \A j \in S : i >= j

\* a fan-out that would collect the records last first
extracted_list_reversed(records) ==
    PyList([i \in 1..Len(records) |-> records[Len(records) + 1 - i]])

\* _extract_data, list branch: extracted_data = [] and one append per item
extracted_list(records) == PyList(records)

\* _extract_data(content, data_type_mapping) for the plan node p
RECURSIVE _extract_data(_, _, _, _)
_extract_data(content, plan, p, delimiter) ==
    LET data_type_settings == plan[p]
        elements == data_type_elements(plan, p)
        name(i) == _data_type_mapping_name(plan[p \o <<elements[i]>>], delimiter)
        \* the dict built for one composite value: item.get(key, None) of every
        \* child key, under the child's mapping name
        record(item) ==
            IF elements # <<>> /\ item.k # "dict"
            THEN PyRaise("AttributeError", p)
            ELSE LET results ==
                         [i \in 1..Len(elements) |->
                             _extract_data(dict_get(item, elements[i]), plan,
                                           p \o <<elements[i]>>, delimiter)]
                     raised == {i \in 1..Len(elements) : results[i].k = "raise"}
                 IN  IF raised # {} THEN results[FirstOf(raised)]
                     ELSE PyDict([n \in {name(i) : i \in 1..Len(elements)} |->
                                   results[LastOf({i \in 1..Len(elements) : name(i) = n})]])
    IN  IF data_type_settings.collected_info_type = NoneVal THEN PyNull
        ELSE IF data_type_settings.collected_info_type = "V"
        THEN IF data_type_settings.type = "object" /\ content # PyNull
             THEN IF content.k = "list"
                  THEN LET items == [i \in 1..Len(content.v) |-> record(content.v[i])]
                           raised == {i \in 1..Len(items) : items[i].k = "raise"}
                       IN  IF raised # {} THEN items[FirstOf(raised)]
                           ELSE extracted_list(items)
                  ELSE record(content)
             ELSE IF content.k = "str"
                  THEN _cast_data_value_to_type(content.v, data_type_settings.type, p)
                  ELSE content
        \* elif data_type_mapping["collected_info_type"] == "E": the lookup is
        \* in the plan node, whose keys are "@collected_info" and its children
        ELSE IF p \o <<CollectedInfoTypeKey>> \in DOMAIN plan
             THEN PyNull
             ELSE PyRaise("KeyError", p)

\* ---- the logger of the module (util/_util.py getLogger)

\* logging's numeric value of a level name
levelno(level) ==
    CASE level = "DEBUG" -> 10
      [] level = "INFO" -> 20
      [] level = "WARNING" -> 30
      [] level = "ERROR" -> 40

\* getLogger: logger.setLevel(logging.INFO)
LoggerLevel == "INFO"

\* Logger.isEnabledFor: a call below the logger's level emits no record
emitted(calls) == {call \in calls : levelno(call.level) >= levelno(LoggerLevel)}

\* the distinct logger calls _extract_data makes for the plan node p and
\* below it, up to the first exception: logger.debug for a required field
\* whose content is None
RECURSIVE _extract_data_log(_, _, _, _)
_extract_data_log(content, plan, p, delimiter) ==
    LET data_type_settings == plan[p]
        elements == data_type_elements(plan, p)
        own == IF data_type_settings.occurence /\ content = PyNull
               THEN {[level |-> "DEBUG", at |-> p]}
               ELSE {}
        child(item, i) == p \o <<elements[i]>>
        visited(item) ==
            LET raised == {i \in 1..Len(elements) :
                              _extract_data(dict_get(item, elements[i]), plan,
                                            child(item, i), delimiter).k = "raise"}
            IN  IF raised = {} THEN 1..Len(elements) ELSE 1..FirstOf(raised)
        record_log(item) ==
            IF elements # <<>> /\ item.k # "dict" THEN {}
            ELSE UNION { _extract_data_log(dict_get(item, elements[i]), plan,
                                           child(item, i), delimiter) : i \in visited(item) }
        items_visited ==
            LET raised == {i \in 1..Len(content.v) :
                              _extract_data(content.v[i], plan, p, delimiter).k = "raise"}
            IN  IF raised = {} THEN 1..Len(content.v) ELSE 1..FirstOf(raised)
    IN  IF data_type_settings.collected_info_type = NoneVal THEN {}
        ELSE IF /\ data_type_settings.collected_info_type = "V"
                /\ data_type_settings.type = "object"
                /\ content # PyNull
        THEN IF content.k = "list"
             THEN own \cup UNION {record_log(content.v[i]) : i \in items_visited}
             ELSE own \cup record_log(content)
        ELSE own

\* the logger calls of extract(content) for one document: those of
\* _extract_data, which only the Value branch calls
extract_log(content, plan, delimiter) ==
    IF content.k = "dict" /\ Cardinality(DOMAIN content.v) = 1
    THEN LET processed_data_type_name == CHOOSE key \in DOMAIN content.v : TRUE
             p == <<processed_data_type_name>>
         IN  IF p \in DOMAIN plan /\ plan[p].collected_info_type = "V"
             THEN _extract_data_log(content.v[processed_data_type_name], plan, p, delimiter)
             ELSE {}
    ELSE {}

\* extract(content) without a root prefix; for a list, the results of the
\* lazy map, one per item
RECURSIVE extract(_, _, _)
extract(content, plan, delimiter) ==
    IF content.k = "dict" /\ Cardinality(DOMAIN content.v) > 1
    THEN PyRaise("ValueError", <<>>)
    ELSE IF content.k = "list"
    THEN PyList([i \in 1..Len(content.v) |-> extract(content.v[i], plan, delimiter)])
    ELSE IF content.k # "dict" THEN PyRaise("AttributeError", <<>>)
    ELSE IF DOMAIN content.v = {} THEN PyRaise("IndexError", <<>>)
    ELSE LET processed_data_type_name == CHOOSE key \in DOMAIN content.v : TRUE
             p == <<processed_data_type_name>>
         IN  IF p \notin DOMAIN plan THEN PyRaise("KeyError", <<>>)
             ELSE LET processed_data_type_settings == plan[p]
                      data_type_mapping_name ==
                          _data_type_mapping_name(processed_data_type_settings, delimiter)
                      data == content.v[processed_data_type_name]
                  IN  IF processed_data_type_settings.collected_info_type = "V"
                      THEN LET extracted == _extract_data(data, plan, p, delimiter)
                           IN  IF extracted.k = "raise" THEN extracted
                               ELSE PyDict(data_type_mapping_name :> extracted)
                      ELSE IF processed_data_type_settings.collected_info_type = "E"
                      THEN PyDict(data_type_mapping_name :> PyBool(truthy(data)))
                      ELSE PyDict(<<>>)

\* ---- the plans and the documents

\* the longest list in a document
MaxItems == 2

PlanRoot == <<DefaultStructureName>>

PlanPaths ==
    { PlanRoot, PlanRoot \o <<NameA>>, PlanRoot \o <<NameB>>, PlanRoot \o <<NameA, NameA>> }

PlanShapes == {S \in SUBSET PlanPaths : PlanRoot \in S /\ PrefixClosed(S)}

CollectedInfoTypes == {"V", "E", NoneVal}

LeafTypes == {"Integer", "String"}

\* the last segment the plan file gives to the mapping of a field: the
\* field b is mapped to _b, every other field to its own name
mapped_name(key) == IF key = NameB THEN <<"_">> \o key ELSE key

\* a plan node as the structure builders and fill_route leave it; its
\* collected_info_type, its occurence and the last segment of its mapping
\* as the plan file states them
plan_node(p, choice, is_object, delimiter) ==
    [ annotation |-> <<>>,
      aliases |-> <<Last(p)>>,
      collected_info_type |-> choice.collected_info_type,
      type |-> IF is_object THEN "object" ELSE choice.type,
      occurence |-> choice.occurence,
      external_id |-> FALSE,
      path |-> Join(p, delimiter),
      mapping |-> Join(Front(p) \o <<mapped_name(Last(p))>>, delimiter) ]

Plans ==
    UNION { { [p \in S |-> plan_node(p, choice[p], HasChild(S, p), Arrow)] :
                choice \in [S -> [collected_info_type : CollectedInfoTypes, type : LeafTypes,
                                  occurence : {FALSE}]] } :
            S \in PlanShapes }

\* the plans whose every node is a Value, required or not
ValueLeafTypes == {"Integer", "Boolean", "String"}

ValuePlans ==
    UNION { { [p \in S |-> plan_node(p, choice[p], HasChild(S, p), Arrow)] :
                choice \in [S -> [collected_info_type : {"V"}, type : ValueLeafTypes,
                                  occurence : BOOLEAN]] } :
            S \in PlanShapes }

LeafValues == {PyNull, PyInt(0), PyInt(5), PyStr(<<>>), PyStr(<<"7">>)}

InnerValues == {PyNull, PyInt(0), PyInt(5)}

ValuesOfA ==
    LeafValues \cup {PyDict(<<>>)} \cup {PyDict(NameA :> value) : value \in InnerValues}

ValuesOfB == LeafValues

Records ==
    UNION { { PyDict(f) : f \in { g \in [S -> ValuesOfA \cup ValuesOfB] :
                                  /\ NameA \in S => g[NameA] \in ValuesOfA
                                  /\ NameB \in S => g[NameB] \in ValuesOfB } } :
            S \in SUBSET {NameA, NameB} }

Items == {PyDict(<<>>), PyDict(NameA :> PyInt(5)), PyDict(NameB :> PyNull)}

Documents ==
    { PyDict(DefaultStructureName :> value) :
        value \in LeafValues \cup Records \cup {PyList(items) : items \in SeqsUpTo(Items, MaxItems)} }

\* the documents whose strings are to be cast
TextValues ==
    { PyNull, PyInt(5), PyStr(<<"7">>), PyStr(<<"x">>),
      PyStr(<<"t", "r", "u", "e">>), PyStr(<<"T", "r", "u", "e">>) }

TextValuesOfA ==
    TextValues \cup {PyDict(<<>>)} \cup {PyDict(NameA :> value) : value \in InnerValues}

TextRecords ==
    UNION { { PyDict(f) : f \in { g \in [S -> TextValuesOfA \cup TextValues] :
                                  /\ NameA \in S => g[NameA] \in TextValuesOfA
                                  /\ NameB \in S => g[NameB] \in TextValues } } :
            S \in SUBSET {NameA, NameB} }

TextItems ==
    { PyDict(<<>>), PyDict(NameA :> PyInt(5)), PyDict(NameA :> PyStr(<<"7">>)),
      PyDict(NameB :> PyStr(<<"x">>)) }

TextDocuments ==
    { PyDict(DefaultStructureName :> value) :
        value \in TextValues \cup TextRecords
                    \cup {PyList(items) : items \in SeqsUpTo(TextItems, MaxItems)} }

ExtractIdle ==
    /\ ex_mapping = <<>>
    /\ ex_content = PyNull
    /\ ex_result = NoneVal
    /\ ex_pc = "idle"
    /\ ex_log = {}

ExtractInit ==
    /\ ex_mapping \in Plans
    /\ ex_content \in Documents
    /\ ex_result = NoneVal
    /\ ex_pc = "call"
    /\ ex_log = {}

\* a plan of Value nodes and a document with strings to cast
ValuesInit ==
    /\ ex_mapping \in ValuePlans
    /\ ex_content \in TextDocuments
    /\ ex_result = NoneVal
    /\ ex_pc = "call"
    /\ ex_log = {}

\* DataExtractor.extract(content), the mapping delimiter being the default
Extract ==
    /\ ex_pc = "call"
    /\ ex_result' = extract(ex_content, ex_mapping, Arrow)
    /\ ex_log' = emitted(extract_log(ex_content, ex_mapping, Arrow))
    /\ ex_pc' = "done"
    /\ UNCHANGED <<ex_mapping, ex_content>>

-----------------------------------------------------------------------------
(* DataExtractor.extract_from_file (extractor/_extractor.py) *)

\* the longest dataset
MaxDocs == 3

DigitChars == <<"0", "1", "2", "3", "4", "5", "6", "7", "8", "9">>

\* str(n) for n >= 0
RECURSIVE int_str(_)
int_str(n) ==
    IF n < 10 THEN <<DigitChars[n + 1]>>
    ELSE int_str(n \div 10) \o <<DigitChars[(n % 10) + 1]>>

\* the keys an extracted record can hold, in the order the plans give them
RecordKeys == <<DefaultStructureName, NameA, mapped_name(NameB)>>

Quoted(s) == <<"\"">> \o s \o <<"\"">>

\* json.dumps(value, ensure_ascii=False) on strings that need no escape
RECURSIVE json_dumps(_)
json_dumps(value) ==
    CASE value.k = "null" -> <<"n", "u", "l", "l">>
      [] value.k = "int" -> int_str(value.v)
      [] value.k = "str" -> Quoted(value.v)
      [] value.k = "bool" ->
             IF value.v THEN <<"t", "r", "u", "e">> ELSE <<"f", "a", "l", "s", "e">>
      [] value.k = "dict" ->
             LET keys == SelectSeq(RecordKeys, LAMBDA key : key \in DOMAIN value.v)
             IN  <<"{">>
                 \o Join([i \in 1..Len(keys) |->
                             Quoted(keys[i]) \o <<":", " ">> \o json_dumps(value.v[keys[i]])],
                         <<",", " ">>)
                 \o <<"}">>
      [] value.k = "list" ->
             <<"[">>
             \o Join([i \in 1..Len(value.v) |-> json_dumps(value.v[i])], <<",", " ">>)
             \o <<"]">>

\* an extraction that would write into the plan it reads
mapping_after_extract_writing(plan, content) ==
    [p \in DOMAIN plan |-> [plan[p] EXCEPT !.type = "String"]]

\* what extract and _extract_data leave in self.mapping: they only read it
mapping_after_extract(plan, content) == plan

\* the plans of one scalar field and the documents of the dataset
BatchPlans == {plan \in ValuePlans : DOMAIN plan = {PlanRoot}}

BatchDocuments ==
    { PyDict(DefaultStructureName :> value) :
        value \in {PyInt(5), PyStr(<<"7">>), PyStr(<<"x">>)} }

\* the batch sizes configured: below the dataset length and not
BatchSizes == {MaxDocs - 1, MaxDocs}

\* a future whose task has not run yet
Submitted == [k |-> "submitted"]

BatchIdle ==
    /\ bt_file = <<>>
    /\ bt_key = 0
    /\ bt_mapping = <<>>
    /\ bt_mapping0 = <<>>
    /\ bt_batch_size = 0
    /\ bt_dset = <<>>
    /\ bt_futures = <<>>
    /\ bt_yielded = {}
    /\ bt_batch = <<>>
    /\ bt_out = <<>>
    /\ bt_processed = 0
    /\ bt_pc = "idle"

BatchInit ==
    /\ bt_mapping \in BatchPlans
    /\ bt_mapping0 = bt_mapping
    /\ bt_batch_size \in BatchSizes
    /\ bt_dset \in SeqsUpTo(BatchDocuments, MaxDocs) \ {<<>>}
    /\ bt_file = <<bt_dset>>
    /\ bt_key = 1
    /\ bt_futures = <<>>
    /\ bt_yielded = {}
    /\ bt_batch = <<>>
    /\ bt_out = <<>>
    /\ bt_processed = 0
    /\ bt_pc = "start"

\* one self.extract task per document is submitted to the pool
BatchSubmit ==
    /\ bt_pc = "start"
    /\ bt_futures' = [i \in 1..Len(bt_dset) |-> Submitted]
    /\ bt_pc' = "pool"
    /\ UNCHANGED <<bt_file, bt_key, bt_mapping, bt_mapping0, bt_batch_size, bt_dset,
                   bt_yielded, bt_batch, bt_out, bt_processed>>

\* a worker runs self.extract on one document with the shared mapping
BatchExtract ==
    /\ bt_pc = "pool"
    /\ \E i \in 1..Len(bt_dset) :
        /\ bt_futures[i] = Submitted
        /\ bt_futures' = [bt_futures EXCEPT ![i] = extract(bt_dset[i], bt_mapping, Arrow)]
        /\ bt_mapping' = mapping_after_extract(bt_mapping, bt_dset[i])
    /\ UNCHANGED <<bt_file, bt_key, bt_mapping0, bt_batch_size, bt_dset, bt_yielded,
                   bt_batch, bt_out, bt_processed, bt_pc>>

\* the with block ends once every task is over
BatchJoin ==
    /\ bt_pc = "pool"
    /\ \A i \in 1..Len(bt_dset) : bt_futures[i] # Submitted
    /\ bt_pc' = "collect"
    /\ UNCHANGED <<bt_file, bt_key, bt_mapping, bt_mapping0, bt_batch_size, bt_dset,
                   bt_futures, bt_yielded, bt_batch, bt_out, bt_processed>>

\* one turn of the loop over as_completed, which yields the finished futures
\* in no given order: future.result() raises the task's exception, else the
\* record is serialised into the batch; a batch longer than the batch size
\* is written into a dataset resized to one element less, which h5py
\* refuses with a TypeError
BatchCollect ==
    /\ bt_pc = "collect"
    /\ \E i \in (1..Len(bt_dset)) \ bt_yielded :
        /\ bt_yielded' = bt_yielded \cup {i}
        /\ IF bt_futures[i].k = "raise"
           THEN /\ bt_pc' = bt_futures[i].exc
                /\ UNCHANGED bt_batch
           ELSE /\ bt_batch' = Append(bt_batch, json_dumps(bt_futures[i]))
                /\ bt_pc' = IF Len(bt_batch) + 1 > bt_batch_size THEN "TypeError" ELSE "collect"
    /\ UNCHANGED <<bt_file, bt_key, bt_mapping, bt_mapping0, bt_batch_size, bt_dset,
                   bt_futures, bt_out, bt_processed>>

\* extracted_data_dset.resize((size,)): the elements beyond the new size are
\* dropped, the new ones are empty strings
resize(dset, size) ==
    [i \in 1..size |-> IF i <= Len(dset) THEN dset[i] ELSE <<>>]

\* extracted_data_dset[processed_data:] = numpy.asarray(batch), on a dataset
\* that holds processed_data + len(batch) elements
write_from(dset, processed_data, batch) ==
    [i \in 1..Len(dset) |->
        IF i <= processed_data THEN dset[i] ELSE batch[i - processed_data]]

\* "if batch:" after the loop over as_completed: the dataset is resized to
\* processed_data + len(batch) and the batch written from processed_data on
write_rest(dset, processed_data, batch) ==
    IF batch = <<>> THEN dset
    ELSE write_from(resize(dset, processed_data + Len(batch)), processed_data, batch)

\* after the loop of the last dataset: the rest of the batch is written and
\* the file returned
BatchFinish ==
    /\ bt_pc = "collect"
    /\ bt_yielded = 1..Len(bt_dset)
    /\ bt_key = Len(bt_file)
    /\ bt_out' = write_rest(bt_out, bt_processed, bt_batch)
    /\ bt_processed' = bt_processed + Len(bt_batch)
    /\ bt_batch' = <<>>
    /\ bt_pc' = "returned"
    /\ UNCHANGED <<bt_file, bt_key, bt_mapping, bt_mapping0, bt_batch_size, bt_dset,
                   bt_futures, bt_yielded>>

\* after the loop of a dataset that is not the last: the rest of the batch is
\* written, and the next turn of "for key in file.keys()" starts with an
\* empty batch and processed_data = 0
BatchNextDataset ==
    /\ bt_pc = "collect"
    /\ bt_yielded = 1..Len(bt_dset)
    /\ bt_key < Len(bt_file)
    /\ bt_out' = write_rest(bt_out, bt_processed, bt_batch)
    /\ bt_key' = bt_key + 1
    /\ bt_dset' = bt_file[bt_key + 1]
    /\ bt_futures' = <<>>
    /\ bt_yielded' = {}
    /\ bt_batch' = <<>>
    /\ bt_processed' = 0
    /\ bt_pc' = "start"
    /\ UNCHANGED <<bt_file, bt_mapping, bt_mapping0, bt_batch_size>>

\* the input files of several datasets: every dataset holds up to
\* MaxFileDocs documents, an empty dataset included
MaxDatasets == 2

MaxFileDocs == 2

FileBatchSizes == {MaxFileDocs - 1, MaxFileDocs}

Files == SeqsUpTo(SeqsUpTo(BatchDocuments, MaxFileDocs), MaxDatasets) \ {<<>>}

\* extract_from_file is called on a file of one or more datasets
FileInit ==
    /\ bt_mapping \in BatchPlans
    /\ bt_mapping0 = bt_mapping
    /\ bt_batch_size \in FileBatchSizes
    /\ bt_file \in Files
    /\ bt_key = 1
    /\ bt_dset = bt_file[1]
    /\ bt_futures = <<>>
    /\ bt_yielded = {}
    /\ bt_batch = <<>>
    /\ bt_out = <<>>
    /\ bt_processed = 0
    /\ bt_pc = "start"

-----------------------------------------------------------------------------
(* Specifications *)

vars ==
    <<merge_vars, xsd_vars, route_vars, extract_vars, batch_vars, struct_vars, self_vars,
      array_vars, splice_vars>>

InitMerge == MergeInit /\ XsdIdle /\ RouteIdle /\ ExtractIdle /\ BatchIdle /\ StructIdle /\ ArrayIdle /\ SpliceIdle

NextMerge ==
    \/ FoldElement /\ UNCHANGED <<xsd_vars, route_vars, extract_vars, batch_vars, struct_vars, self_vars, array_vars, splice_vars>>
    \/ ParseSingle /\ UNCHANGED <<xsd_vars, route_vars, extract_vars, batch_vars, struct_vars, self_vars, array_vars, splice_vars>>

SpecMerge == InitMerge /\ [][NextMerge]_vars

InitXsd == XsdInit /\ MergeIdle /\ RouteIdle /\ ExtractIdle /\ BatchIdle /\ StructIdle /\ ArrayIdle /\ SpliceIdle

NextXsd ==
    \/ XsdParseRoot /\ UNCHANGED <<merge_vars, route_vars, extract_vars, batch_vars, struct_vars, self_vars, array_vars, splice_vars>>
    \/ XsdParseChild /\ UNCHANGED <<merge_vars, route_vars, extract_vars, batch_vars, struct_vars, self_vars, array_vars, splice_vars>>
    \/ XsdRecursionError /\ UNCHANGED <<merge_vars, route_vars, extract_vars, batch_vars, struct_vars, self_vars, array_vars, splice_vars>>
    \/ XsdReturn /\ UNCHANGED <<merge_vars, route_vars, extract_vars, batch_vars, struct_vars, self_vars, array_vars, splice_vars>>

SpecXsd == InitXsd /\ [][NextXsd]_vars

InitRoutes == RouteInit /\ MergeIdle /\ XsdIdle /\ ExtractIdle /\ BatchIdle /\ StructIdle /\ ArrayIdle /\ SpliceIdle

NextRoutes ==
    \/ MakeStructure /\ UNCHANGED <<merge_vars, xsd_vars, extract_vars, batch_vars, struct_vars, self_vars, array_vars, splice_vars>>
    \/ FillRoutesSubmit /\ UNCHANGED <<merge_vars, xsd_vars, extract_vars, batch_vars, struct_vars, self_vars, array_vars, splice_vars>>
    \/ FillRoutePath /\ UNCHANGED <<merge_vars, xsd_vars, extract_vars, batch_vars, struct_vars, self_vars, array_vars, splice_vars>>
    \/ FillRouteMapping /\ UNCHANGED <<merge_vars, xsd_vars, extract_vars, batch_vars, struct_vars, self_vars, array_vars, splice_vars>>
    \/ FillRoutesJoin /\ UNCHANGED <<merge_vars, xsd_vars, extract_vars, batch_vars, struct_vars, self_vars, array_vars, splice_vars>>
    \/ SaveStructure /\ UNCHANGED <<merge_vars, xsd_vars, extract_vars, batch_vars, struct_vars, self_vars, array_vars, splice_vars>>
    \/ ReturnStructure /\ UNCHANGED <<merge_vars, xsd_vars, extract_vars, batch_vars, struct_vars, self_vars, array_vars, splice_vars>>

SpecRoutes == InitRoutes /\ [][NextRoutes]_vars

InitExtract == ExtractInit /\ MergeIdle /\ XsdIdle /\ RouteIdle /\ BatchIdle /\ StructIdle /\ ArrayIdle /\ SpliceIdle

NextExtract ==
    \/ Extract /\ UNCHANGED <<merge_vars, xsd_vars, route_vars, batch_vars, struct_vars, self_vars, array_vars, splice_vars>>

SpecExtract == InitExtract /\ [][NextExtract]_vars

InitValues == ValuesInit /\ MergeIdle /\ XsdIdle /\ RouteIdle /\ BatchIdle /\ StructIdle /\ ArrayIdle /\ SpliceIdle

SpecValues == InitValues /\ [][NextExtract]_vars

InitBatch == BatchInit /\ MergeIdle /\ XsdIdle /\ RouteIdle /\ ExtractIdle /\ StructIdle /\ ArrayIdle /\ SpliceIdle

NextBatch ==
    \/ BatchSubmit /\ UNCHANGED <<merge_vars, xsd_vars, route_vars, extract_vars, struct_vars, self_vars, array_vars, splice_vars>>
    \/ BatchExtract /\ UNCHANGED <<merge_vars, xsd_vars, route_vars, extract_vars, struct_vars, self_vars, array_vars, splice_vars>>
    \/ BatchJoin /\ UNCHANGED <<merge_vars, xsd_vars, route_vars, extract_vars, struct_vars, self_vars, array_vars, splice_vars>>
    \/ BatchCollect /\ UNCHANGED <<merge_vars, xsd_vars, route_vars, extract_vars, struct_vars, self_vars, array_vars, splice_vars>>
    \/ BatchFinish /\ UNCHANGED <<merge_vars, xsd_vars, route_vars, extract_vars, struct_vars, self_vars, array_vars, splice_vars>>

SpecBatch == InitBatch /\ [][NextBatch]_vars

InitFile == FileInit /\ MergeIdle /\ XsdIdle /\ RouteIdle /\ ExtractIdle /\ StructIdle /\ ArrayIdle /\ SpliceIdle

NextFile ==
    \/ NextBatch
    \/ BatchNextDataset /\ UNCHANGED <<merge_vars, xsd_vars, route_vars, extract_vars, struct_vars, self_vars, array_vars, splice_vars>>

SpecFile == InitFile /\ [][NextFile]_vars

InitStructures ==
    StructInit /\ RouteInit /\ MergeIdle /\ XsdIdle /\ ExtractIdle /\ BatchIdle /\ ArrayIdle /\ SpliceIdle

NextStructures ==
    \/ RejectIgnoreLevels /\ UNCHANGED <<merge_vars, xsd_vars, extract_vars, batch_vars, struct_vars, array_vars, splice_vars>>
    \/ CsvMakeStructure /\ UNCHANGED <<merge_vars, xsd_vars, extract_vars, batch_vars, struct_vars, array_vars, splice_vars>>
    \/ XmlMakeStructure /\ UNCHANGED <<merge_vars, xsd_vars, extract_vars, batch_vars, struct_vars, array_vars, splice_vars>>
    \/ JsonMakeStructure /\ UNCHANGED <<merge_vars, xsd_vars, extract_vars, batch_vars, struct_vars, array_vars, splice_vars>>
    \/ FillRoutesSubmit /\ UNCHANGED <<merge_vars, xsd_vars, extract_vars, batch_vars, struct_vars, self_vars, array_vars, splice_vars>>
    \/ FillRoutePath /\ UNCHANGED <<merge_vars, xsd_vars, extract_vars, batch_vars, struct_vars, self_vars, array_vars, splice_vars>>
    \/ FillRouteMapping /\ UNCHANGED <<merge_vars, xsd_vars, extract_vars, batch_vars, struct_vars, self_vars, array_vars, splice_vars>>
    \/ FillRoutesJoin /\ UNCHANGED <<merge_vars, xsd_vars, extract_vars, batch_vars, struct_vars, self_vars, array_vars, splice_vars>>
    \/ SaveStructure /\ UNCHANGED <<merge_vars, xsd_vars, extract_vars, batch_vars, struct_vars, self_vars, array_vars, splice_vars>>
    \/ ReturnStructure /\ UNCHANGED <<merge_vars, xsd_vars, extract_vars, batch_vars, struct_vars, self_vars, array_vars, splice_vars>>

SpecStructures == InitStructures /\ [][NextStructures]_vars

InitArrays ==
    ArrayInit /\ MergeIdle /\ XsdIdle /\ RouteIdle /\ ExtractIdle /\ BatchIdle /\ StructIdle
        /\ SpliceIdle

NextArrays ==
    \/ JsonParseList /\ UNCHANGED <<merge_vars, xsd_vars, route_vars, extract_vars, batch_vars, struct_vars, self_vars, splice_vars>>
    \/ XmlParseList /\ UNCHANGED <<merge_vars, xsd_vars, route_vars, extract_vars, batch_vars, struct_vars, self_vars, splice_vars>>

SpecArrays == InitArrays /\ [][NextArrays]_vars

InitSplice ==
    SpliceInit /\ MergeIdle /\ XsdIdle /\ RouteIdle /\ ExtractIdle /\ BatchIdle /\ StructIdle
        /\ ArrayIdle

NextSplice ==
    \/ XsdMakeStructure /\ UNCHANGED <<merge_vars, xsd_vars, route_vars, extract_vars, batch_vars, struct_vars, self_vars, array_vars>>

SpecSplice == InitSplice /\ [][NextSplice]_vars

-----------------------------------------------------------------------------
(* Properties of the type unifier *)

priority(tree, p) == _data_type_priorities[tree[p].type]

Max(x, y) == IF x >= y THEN x ELSE y

\* C1: every merge step keeps every field: the accumulated tree's field set,
\* at every nesting level, is the union of the field set of the tree before
\* the step and of the incoming tree.
C1_UnionOfFields ==
    DOMAIN data_structure = DOMAIN before \cup DOMAIN incoming

\* a unifying step in which the incoming tree brings a nested field the
\* accumulated tree lacks and lacks a field the accumulated tree has
C1_Witness ==
    /\ before # <<>>
    /\ \E p \in DOMAIN incoming \ DOMAIN before : Len(p) >= 2 /\ p \in DOMAIN data_structure
    /\ \E q \in DOMAIN before \ DOMAIN incoming : q \in DOMAIN data_structure

\* C2: for every leaf in both the existing and the incoming tree the merged
\* type's priority is at least the larger of the two priorities, and no
\* field's priority ever decreases in a merge step.
C2_WideningMonotone ==
    /\ \A p \in DOMAIN before \cap DOMAIN incoming :
          priority(data_structure, p) >= Max(priority(before, p), priority(incoming, p))
    /\ \A p \in DOMAIN before : priority(data_structure, p) >= priority(before, p)

\* one step widens a shared leaf to the incoming type and keeps another
\* shared leaf at its wider existing type
C2_Witness ==
    /\ \E p \in DOMAIN before \cap DOMAIN incoming :
          /\ priority(incoming, p) > priority(before, p)
          /\ data_structure[p].type = incoming[p].type
    /\ \E p \in DOMAIN before \cap DOMAIN incoming :
          /\ priority(incoming, p) < priority(before, p)
          /\ data_structure[p].type = before[p].type

\* C3 as stated: merging B into A and A into B give the same fields and the
\* same final type for every field.
C3_Commutative ==
    before # <<>> =>
        /\ DOMAIN data_structure = DOMAIN swapped
        /\ \A p \in DOMAIN data_structure : data_structure[p].type = swapped[p].type

\* C3 amended: merging B into A and A into B give the same fields and, for
\* every field, final types of the same priority; the two types are equal
\* except for a field to which the two trees give different types of equal
\* priority, where each order keeps the type of the tree merged into.
C3_CommutativeUpToTies ==
    before # <<>> =>
        /\ DOMAIN data_structure = DOMAIN swapped
        /\ \A p \in DOMAIN data_structure :
              /\ priority(data_structure, p) = priority(swapped, p)
              /\ data_structure[p].type # swapped[p].type =>
                    /\ p \in DOMAIN before \cap DOMAIN incoming
                    /\ priority(before, p) = priority(incoming, p)
                    /\ data_structure[p].type = before[p].type
                    /\ swapped[p].type = incoming[p].type

\* two trees that differ in fields and in the priority of a shared leaf are
\* merged, and both orders give the same tree, different from either input
C3_Witness ==
    /\ before # <<>>
    /\ \E p \in DOMAIN before \cap DOMAIN incoming : priority(before, p) # priority(incoming, p)
    /\ DOMAIN before \ DOMAIN incoming # {}
    /\ DOMAIN incoming \ DOMAIN before # {}
    /\ data_structure = swapped
    /\ data_structure # before
    /\ data_structure # incoming

\* C4: folding a document a second time changes nothing: when the incoming
\* tree equals the accumulated tree, or is the tree of a document folded
\* before, the accumulated tree after the step equals the tree before it.
C4_Idempotent ==
    (n_folded >= 2 /\ (incoming = before \/ incoming = first)) =>
        data_structure = before

\* the first document is folded again after a document that widened one of
\* its leaves and added a field
C4_Witness ==
    /\ n_folded >= 3
    /\ incoming = first
    /\ \E p \in DOMAIN before \cap DOMAIN incoming : priority(before, p) > priority(incoming, p)
    /\ DOMAIN before \ DOMAIN incoming # {}
    /\ data_structure = before

-----------------------------------------------------------------------------
(* Properties of the XSD descent *)

\* C5: structure construction terminates on every schema, also when an
\* element of type X has a descendant element of type X: the descent never
\* runs into the interpreter's recursion limit.
C5_CycleTerminates == xsd_status # "RecursionError"


-----------------------------------------------------------------------------
(* Route filling *)

\* following the segments of a path from the root of the structure: the
\* nodes they reach, one or (a KeyError) none
resolve(structure, segments) ==
    IF segments \in DOMAIN structure THEN {segments} ELSE {}

\* C6: once fill_routes has returned, splitting any node's path by the
\* mapping delimiter and following the segments from the root reaches that
\* very node.
C6_PathRoundTrip ==
    rt_pc \in {"filled", "returned"} =>
        \A p \in DOMAIN rt_structure :
            resolve(rt_structure, Split(rt_structure[p].path, mapping_delimiter)) = {p}

\* C7: once fill_routes has returned, with whichever delimiter is
\* configured, every node's path is its ancestor names and its own name
\* joined by that delimiter, and its mapping is the same with the last
\* segment replaced by its normalised identifier.
C7_PathAndMappingAnyDelimiter ==
    rt_pc \in {"filled", "returned"} =>
        \A p \in DOMAIN rt_structure :
            /\ rt_structure[p].path = Join(p, mapping_delimiter)
            /\ to_var_name(Last(p)).ok
            /\ rt_structure[p].mapping =
                   Join(Front(p) \o <<to_var_name(Last(p)).value>>, mapping_delimiter)

\* C8: fill_routes is a full barrier (when it is over no task is pending or
\* running), and extract_structure fills the routes before it saves or
\* returns: every node of the returned or saved structure has its path and
\* its mapping set.
C8_BarrierThenFilled ==
    /\ rt_pc \in {"filled", "raised", "returned"} =>
           \A path \in DOMAIN rt_tasks : Finished(rt_tasks[path])
    /\ rt_pc = "returned" =>
           \A p \in DOMAIN rt_structure :
               rt_structure[p].path # <<>> /\ rt_structure[p].mapping # <<>>
    /\ rt_saved # NoneVal =>
           \A p \in DOMAIN rt_saved :
               rt_saved[p].path # <<>> /\ rt_saved[p].mapping # <<>>


-----------------------------------------------------------------------------
(* Extraction *)

\* the key sequences of an extracted value, lists being looked through
RECURSIVE KeyPaths(_)
KeyPaths(value) ==
    CASE value.k = "dict" ->
             UNION { {<<key>>} \cup {<<key>> \o rest : rest \in KeyPaths(value.v[key])} :
                     key \in DOMAIN value.v }
      [] value.k = "list" -> UNION {KeyPaths(value.v[i]) : i \in 1..Len(value.v)}
      [] OTHER -> {}

\* the mapping names along the way to a plan node
NamePath(plan, q) ==
    [i \in 1..Len(q) |-> _data_type_mapping_name(plan[SubSeq(q, 1, i)], Arrow)]

\* the value found by following keys through dicts, null where a key is
\* absent
RECURSIVE value_at(_, _)
value_at(value, keys) ==
    IF keys = <<>> THEN value
    ELSE IF value.k = "dict" THEN value_at(dict_get(value, Head(keys)), Tail(keys))
    ELSE PyNull

\* extraction descends to the plan node q: every node above it is a Value
\* object whose content is a dict
Reached(plan, document, q) ==
    \A i \in 1..(Len(q) - 1) :
        LET above == SubSeq(q, 1, i)
        IN  /\ plan[above].collected_info_type = "V"
            /\ plan[above].type = "object"
            /\ value_at(document, above).k = "dict"

\* C9: for every plan node that is Ignored, at the top level or nested, the
\* extracted record holds no entry for the field or for a descendant of it,
\* whatever the document holds.
C9_IgnoredEmitsNothing ==
    ex_pc = "done" =>
        \A q \in DOMAIN ex_mapping :
            ex_mapping[q].collected_info_type = NoneVal =>
                \A keys \in KeyPaths(ex_result) : ~IsPrefix(NamePath(ex_mapping, q), keys)

\* C10: for every plan node that is Existence, at the top level or nested,
\* extraction does not raise at it and emits for it the boolean
\* "content is not null": true for 0, "" and empty containers too.
C10_ExistenceIsNotNull ==
    ex_pc = "done" =>
        \A q \in DOMAIN ex_mapping :
            (ex_mapping[q].collected_info_type = "E" /\ Reached(ex_mapping, ex_content, q)) =>
                /\ ~(ex_result.k = "raise" /\ ex_result.at = q)
                /\ ex_result.k # "raise" =>
                       value_at(ex_result, NamePath(ex_mapping, q)) =
                           PyBool(value_at(ex_content, q) # PyNull)


\* C11: for every Value leaf of type Boolean whose content is a string, the
\* extracted value is true exactly when the string is "true" in any case.
C11_BooleanCast ==
    ex_pc = "done" =>
        \A q \in DOMAIN ex_mapping :
            ( /\ ex_mapping[q].collected_info_type = "V"
              /\ ex_mapping[q].type = "Boolean"
              /\ Reached(ex_mapping, ex_content, q)
              /\ value_at(ex_content, q).k = "str"
              /\ ex_result.k # "raise" ) =>
                value_at(ex_result, NamePath(ex_mapping, q)) =
                    PyBool(Lower(value_at(ex_content, q).v) = <<"t", "r", "u", "e">>)


\* C12: a cast failure in one field (a string that is no number in an
\* Integer leaf) is recovered in place: extract does not raise for it and
\* the field is emitted as null.
C12_CastFailureRecovered ==
    ex_pc = "done" =>
        \A q \in DOMAIN ex_mapping :
            ( /\ ex_mapping[q].collected_info_type = "V"
              /\ ex_mapping[q].type = "Integer"
              /\ Reached(ex_mapping, ex_content, q)
              /\ value_at(ex_content, q).k = "str"
              /\ py_int(value_at(ex_content, q).v, q).k = "raise" ) =>
                /\ ~(ex_result.k = "raise" /\ ex_result.at = q)
                /\ ex_result.k # "raise" =>
                       value_at(ex_result, NamePath(ex_mapping, q)) = PyNull


-----------------------------------------------------------------------------
(* Batch extraction *)

Range(seq) == {seq[i] : i \in 1..Len(seq)}

\* C13: when extract_from_file is over and the extraction of some document
\* has failed, the call has not aborted and the record of every other
\* document is in the output.
C13_CollectAndContinue ==
    ( /\ bt_pc \notin {"idle", "start", "pool", "collect"}
      /\ \E i \in 1..Len(bt_dset) : bt_futures[i].k = "raise" ) =>
        /\ bt_pc = "returned"
        /\ \A i \in 1..Len(bt_dset) :
               bt_futures[i].k # "raise" => json_dumps(bt_futures[i]) \in Range(bt_out)


-----------------------------------------------------------------------------
(* Logging *)

\* C14: for a required plan node whose content in the document is null,
\* extraction emits a log record of level WARNING for it, does not raise at
\* it and yields null for the field.
C14_RequiredMissingWarns ==
    ex_pc = "done" =>
        \A q \in DOMAIN ex_mapping :
            ( /\ ex_mapping[q].collected_info_type = "V"
              /\ ex_mapping[q].occurence
              /\ Reached(ex_mapping, ex_content, q)
              /\ value_at(ex_content, q) = PyNull ) =>
                /\ [level |-> "WARNING", at |-> q] \in ex_log
                /\ ~(ex_result.k = "raise" /\ ex_result.at = q)
                /\ ex_result.k # "raise" =>
                       value_at(ex_result, NamePath(ex_mapping, q)) = PyNull


-----------------------------------------------------------------------------
(* Record keys *)

\* the last segment of the mapping of every plan node on the way to q
MappingSegments(plan, q) ==
    [i \in 1..Len(q) |-> Last(Split(plan[SubSeq(q, 1, i)].mapping, Arrow))]

\* C16: every key of an extracted record, at every nesting level, is the
\* last segment of the mapping of the plan node it stands for, not the raw
\* field name.
C16_KeysAreLastMappingSegments ==
    ex_pc = "done" =>
        \A keys \in KeyPaths(ex_result) :
            \E q \in DOMAIN ex_mapping : keys = MappingSegments(ex_mapping, q)


-----------------------------------------------------------------------------
(* Array fan-out *)

-----------------------------------------------------------------------------
(* Structure trees of every variant *)

\* make_structure has returned
StructureMade == rt_pc \notin {"idle", "start", "ValueError"}

\* fill_routes is over: it returned or raised
RoutesOver == rt_pc \in {"filled", "raised", "returned"}

\* C18: in the structure of every variant a node's collected_info_type is
\* Ignored (None) if and only if one of its aliases contains,
\* case-insensitively, one of the configured ignored-field substrings
C18_IgnoredIffSubstring ==
    StructureMade =>
        \A p \in DOMAIN rt_structure :
            HasCollectedInfo(rt_structure[p]) =>
                ((rt_structure[p].collected_info_type = NoneVal)
                    <=> _is_ignored_field(rt_structure[p].aliases, st_ignored))

\* C19: in the structure of every variant, before and after route filling,
\* every field node carries a @collected_info record
C19_OneCollectedInfoPerNode ==
    StructureMade =>
        \A p \in DOMAIN rt_structure : HasCollectedInfo(rt_structure[p])

\* C20: the structure of a table has one leaf per column and nothing below
\* it, typed by the type mapping and not required, and once route filling is
\* over the mapping of each leaf is its own column name
C20_TabularLeaves ==
    (st_variant = "csv" /\ StructureMade) =>
        \A c \in DOMAIN st_source :
            LET p == <<TableName>> \o c
            IN  /\ p \in DOMAIN rt_structure
                /\ HasCollectedInfo(rt_structure[p])
                /\ ~HasChild(DOMAIN rt_structure, p)
                /\ rt_structure[p].type = table_data_type_mapping[st_source[c]]
                /\ rt_structure[p].occurence = FALSE
                /\ RoutesOver => rt_structure[p].mapping = c[1]


-----------------------------------------------------------------------------
(* Markup extraction: schema first *)

\* C21: the structure make_structure returns for a markup document is the
\* one built from the schema when a schema is discovered and can be parsed,
\* and the one inferred from the decoded document when not
C21_SchemaFirst ==
    (st_variant = "xml" /\ rt_pc = "made") =>
        rt_structure =
            IF st_schema.found /\ from_xsd_both(st_schema.elements, st_ignored).ok
            THEN from_xsd_both(st_schema.elements, st_ignored).value
            ELSE xml_parse_json(st_source, NoneVal)


-----------------------------------------------------------------------------
(* Negative ignore_levels *)

\* C22: when extract_structure is called with a negative ignore_levels it
\* raises ValueError and nothing else ever happens: the source is not read,
\* no structure is built and the extractor's ignored_fields and
\* source_content stay as they were
C22_NegativeLevelsRejectedFirst ==
    st_ignore_levels < 0 =>
        /\ rt_pc \in {"start", "ValueError"}
        /\ self_ignored_fields = <<>>
        /\ self_source_content = NotRead
        /\ rt_structure = <<>>
        /\ rt_tasks = <<>>

C22_Witness ==
    /\ rt_pc = "ValueError"
    /\ st_ignore_levels < 0
    /\ st_ignored # <<>>


-----------------------------------------------------------------------------
(* Arrays of objects *)

\* the canonical type parse_element gives a value of class element_class
type_of_class(element_class) ==
    IF element_class = "dict" THEN "object" ELSE data_type_mapping[element_class]

\* the paths of the values of the array's elements
ElementPaths == UNION {DOMAIN ar_content[i] : i \in 1..Len(ar_content)}

\* the canonical types the elements give the value at path q
SeenTypes(q) ==
    {type_of_class(ar_content[i][q]) : i \in {j \in 1..Len(ar_content) : q \in DOMAIN ar_content[j]}}

\* C23: the structure of a field whose value is an array of objects holds
\* every child field that occurs in any element, nested ones included, and
\* the type of each child leaf is one of the types the elements give it, of
\* the highest priority among them
C23_ArrayElementsUnified ==
    ar_pc = "done" =>
        /\ \A q \in ElementPaths : <<ArrayName>> \o q \in DOMAIN ar_structure
        /\ \A q \in ElementPaths :
              LET p == <<ArrayName>> \o q
              IN  (p \in DOMAIN ar_structure /\ ~HasChild(DOMAIN ar_structure, p)) =>
                      /\ ar_structure[p].type \in SeenTypes(q)
                      /\ \A t \in SeenTypes(q) :
                            _data_type_priorities[ar_structure[p].type]
                                >= _data_type_priorities[t]


-----------------------------------------------------------------------------
(* Ties and kind changes in a merge step *)

\* the fields of both trees of a unifying step to which the two trees give
\* different types of equal priority
TiedFields ==
    {p \in DOMAIN before \cap DOMAIN incoming :
        /\ before[p].type # incoming[p].type
        /\ priority(before, p) = priority(incoming, p)}

\* C24 as stated: on a tie the merged leaf takes the incoming document's type
C24_TiesLastWriterWins ==
    n_folded >= 2 =>
        \A p \in TiedFields : data_structure[p].type = incoming[p].type

\* C24 amended: on a tie the merged leaf keeps the type it had, the type of
\* the earlier document
C24_TiesKeepExisting ==
    n_folded >= 2 =>
        \A p \in TiedFields : data_structure[p].type = before[p].type

\* a step that merges Integer with Boolean at one field, or String with
\* object at one
C24_Witness ==
    /\ n_folded >= 2
    /\ \E p \in TiedFields : {before[p].type, incoming[p].type} = {"Integer", "Boolean"}
    /\ data_structure # incoming


\* C25: in every tree the fold reaches, a node that has child fields is
\* typed object; in particular a field that is a scalar in one document and
\* an object in another ends typed object, whichever came first
C25_CompositeWins ==
    \A p \in DOMAIN data_structure :
        HasChild(DOMAIN data_structure, p) => data_structure[p].type = "object"


-----------------------------------------------------------------------------
(* Route-filling tasks *)

\* the flat key of the path entry of node p
own_path(p, delimiter) == Join(p \o <<CollectedInfoKey, PathKey>>, delimiter)

\* a tree with the path and mapping of every node emptied: the tree as
\* make_structure returned it
unrouted(structure) ==
    [p \in DOMAIN structure |-> [structure[p] EXCEPT !.path = <<>>, !.mapping = <<>>]]

\* one fill_route task run from start to end on its own
fill_route_alone(structure, path, delimiter) ==
    LET keys == path_components(path, delimiter)
        name == Last(Split(route_field_content(path), delimiter))
        normalized == to_var_name(name)
        with_path == _fill_field(structure, keys, "path", route_field_content(path))
    IN  IF ~fill_field_ok(structure, keys) THEN structure
        ELSE IF ~normalized.ok THEN with_path
        ELSE _fill_field(with_path, keys, "mapping",
                         route_mapping(path, delimiter, normalized.value))

\* the tasks run one after another, in some order
RECURSIVE fill_routes_in_turn(_, _, _)
fill_routes_in_turn(structure, paths, delimiter) ==
    IF paths = {} THEN structure
    ELSE LET path == CHOOSE x \in paths : TRUE
         IN  fill_routes_in_turn(fill_route_alone(structure, path, delimiter),
                                 paths \ {path}, delimiter)

\* the tasks that took a step
Stepped == {path \in DOMAIN rt_tasks : rt_tasks'[path] # rt_tasks[path]}

\* a step changes at most the path and the mapping of one node, the node of
\* the one task that took the step, and no key of the tree
StepWritesOwnRecord ==
    /\ rt_pc = "pool" => DOMAIN rt_structure' = DOMAIN rt_structure
    /\ \A p \in DOMAIN rt_structure :
          (rt_pc = "pool" /\ rt_structure'[p] # rt_structure[p]) =>
              /\ Stepped = {own_path(p, mapping_delimiter)}
              /\ [rt_structure'[p] EXCEPT !.path = <<>>, !.mapping = <<>>]
                     = [rt_structure[p] EXCEPT !.path = <<>>, !.mapping = <<>>]

\* once the tasks are over the tree is the one the tasks give when run one
\* after another
SameTreeEveryInterleaving ==
    RoutesOver =>
        rt_structure = fill_routes_in_turn(unrouted(rt_structure), DOMAIN rt_tasks,
                                           mapping_delimiter)

\* C26: every step of a fill_route task writes only the path and mapping of
\* its own node and leaves the rest of the tree alone, the tasks are one per
\* node, and the final tree is the same for every interleaving of the tasks
C26_DisjointRecords ==
    /\ [][StepWritesOwnRecord]_vars
    /\ [](rt_pc = "pool" =>
            \A p, q \in DOMAIN rt_structure :
                own_path(p, mapping_delimiter) = own_path(q, mapping_delimiter) => p = q)
    /\ []SameTreeEveryInterleaving

\* the tasks of three nodes are over, and each has written its own path
C26_Witness ==
    /\ RoutesOver
    /\ Cardinality(DOMAIN rt_tasks) >= 3
    /\ \A p \in DOMAIN rt_structure : rt_structure[p].path # <<>>


-----------------------------------------------------------------------------
(* Mapping names of sibling fields *)

\* C27: in the structure extract_structure returns, two distinct fields of
\* the same parent have mappings whose last segments differ, so that no two
\* child fields are extracted under the same key
C27_SiblingMappingsDistinct ==
    rt_pc = "returned" =>
        \A p, q \in DOMAIN rt_structure :
            (p # q /\ Front(p) = Front(q)) =>
                _data_type_mapping_name(rt_structure[p], mapping_delimiter)
                    # _data_type_mapping_name(rt_structure[q], mapping_delimiter)


-----------------------------------------------------------------------------
(* ignore_levels *)

\* the elements of the schema below the ignored levels, by the path they
\* have under the root mapping
SplicedPath(element) == SubSeq(element, sp_ignore_levels + 1, Len(element))

\* C28: make_structure with ignore_levels = N returns a tree that holds no
\* node for an element at depth N or less, and holds every deeper element,
\* with its own @collected_info, at its path below its ancestor at depth
\* N + 1, the elements at depth N + 1 being the fields of the root mapping
C28_IgnoredLevelsTransparent ==
    sp_pc = "done" =>
        /\ sp_result.ok
        /\ DOMAIN sp_result.value =
              {SplicedPath(element) :
                  element \in {e \in sp_schema : Len(e) > sp_ignore_levels}}
        /\ \A element \in sp_schema :
              Len(element) > sp_ignore_levels =>
                  sp_result.value[SplicedPath(element)]
                      = splice_element_info(sp_schema, element)


-----------------------------------------------------------------------------
(* Missing keys *)

\* the keys under which the children of the plan node p are extracted
ChildNames(plan, p) ==
    {_data_type_mapping_name(plan[q], Arrow) :
        q \in {r \in DOMAIN plan : Len(r) = Len(p) + 1 /\ IsPrefix(p, r)}}

\* C29: when extraction reaches a child plan node whose key is absent from
\* the composite value of its parent, it does not raise at that node, and
\* the record made for the parent has the keys of the plan's child nodes
\* and no other
C29_MissingKeysAreNull ==
    ex_pc = "done" =>
        \A q \in DOMAIN ex_mapping :
            ( /\ Len(q) >= 2
              /\ Reached(ex_mapping, ex_content, q)
              /\ Last(q) \notin DOMAIN value_at(ex_content, Front(q)).v ) =>
                /\ ~(ex_result.k = "raise" /\ ex_result.at = q)
                /\ ex_result.k # "raise" =>
                       /\ value_at(ex_result, NamePath(ex_mapping, Front(q))).k = "dict"
                       /\ DOMAIN value_at(ex_result, NamePath(ex_mapping, Front(q))).v
                              = ChildNames(ex_mapping, Front(q))


-----------------------------------------------------------------------------
(* Batch extraction over a whole file *)

\* how often an element occurs in a sequence
Count(seq, x) == Cardinality({i \in 1..Len(seq) : seq[i] = x})

\* the serialised result of every input record of the file
SerializedRecords ==
    UNION { { json_dumps(extract(bt_file[k][i], bt_mapping0, Arrow)) :
                i \in 1..Len(bt_file[k]) } : k \in 1..Len(bt_file) }

\* how many input records of the file have this serialised result
RecordsOf(s) ==
    LET hits(k) == {i \in 1..Len(bt_file[k]) :
                       json_dumps(extract(bt_file[k][i], bt_mapping0, Arrow)) = s}
        RECURSIVE total(_)
        total(k) == IF k = 0 THEN 0 ELSE Cardinality(hits(k)) + total(k - 1)
    IN  total(Len(bt_file))

FileOver == bt_pc \notin {"idle", "start", "pool", "collect"}

\* C30: when extract_from_file is over, it has returned and the output
\* dataset holds exactly one serialised result per input record of the file:
\* every result as often as records have it, and nothing else.
C30_BatchPreservesRecords ==
    FileOver =>
        /\ bt_pc = "returned"
        /\ Range(bt_out) \subseteq SerializedRecords
        /\ \A s \in SerializedRecords : Count(bt_out, s) = RecordsOf(s)

\* C30, on the runs that return: the same statement, given that no task
\* failed and no batch overflowed
C30_ReturnedPreservesRecords ==
    bt_pc = "returned" =>
        /\ Range(bt_out) \subseteq SerializedRecords
        /\ \A s \in SerializedRecords : Count(bt_out, s) = RecordsOf(s)

=============================================================================
